---- MODULE Spec2Model ----
(***************************************************************************)
(* QR code service: the storage-tier fallback chain of QRService           *)
(* (SQLite -> PostgreSQL -> in-process Map) with a Redis cache in front,   *)
(* the scan log and the fire-and-forget access counter.                    *)
(*                                                                         *)
(* Time is counted in ticks of 12 hours.  A stored timestamp is the tick   *)
(* it denotes; the one place where the textual form of a timestamp decides *)
(* the outcome (SQLite compares the ISO-8601 text of expires_at with the   *)
(* text of datetime('now')) is modelled by SqliteTextGreater and           *)
(* SqliteTextLess.                                                         *)
(***************************************************************************)
EXTENDS Integers, Sequences, FiniteSets, TLC

\* ---------------------------------------------------------------- bounds
MaxIds == 2
MaxTime == 3
MaxRetrieves == 1
MaxGenerateTime == 1
\* the workers the master forks after the ones it starts with
MaxForks == 5

\* ------------------------------------------------------------- constants
\* ticks (of 12 hours) in one UTC calendar day
TicksPerDay == 2
\* parseInt(process.env.QR_CODE_EXPIRY_HOURS) || 24: 24 hours, in ticks
DefaultExpiryHours == TicksPerDay
\* the expireInSeconds default of Retrieve for a record without expires_at, in ticks
DefaultCacheTtl == 1

Ids == 1 .. MaxIds
Times == 0 .. MaxTime
\* null as a user id, and the value of a field an object does not have
Null == "null"
Undefined == "undefined"
\* the values of the column is_active (1 and 0 in SQLite, true and false in
\* PostgreSQL)
True == "true"
False == "false"
\* null / undefined where a record is expected (no row, no key, no object)
NoRecord == [absent |-> TRUE]
\* NULL in a timestamp column
NullTime == -1
\* userId of a request: absent, or one of two users
UserIds == {Null, "u1", "u2"}
\* the generate requests: a payload and the userId sent with it
Requests == {[data |-> "p1", userId |-> Null], [data |-> "p2", userId |-> "u1"]}

VARIABLES
    sqliteRows,      \* SQLite table qr_codes: id -> row or NoRecord
    pgRows,          \* PostgreSQL table qr_codes: id -> row or NoRecord
    memoryStore,     \* QRService.memoryStore: id -> record or NoRecord
    redis,           \* Redis keys qr:<id>: id -> [value, expireAt] or NoRecord
    scanLogs,        \* SQLite table qr_scan_logs: id -> number of rows
    sqliteUp,        \* the SQLite handle db answers queries
    pgUp,            \* the PostgreSQL pool answers queries
    redisUp,         \* client && client.isOpen
    now,             \* the clock, in ticks
    nextId,          \* the next identifier uuidv4() hands out
    envExpiryHours,  \* process.env.QR_CODE_EXPIRY_HOURS
    production,      \* process.env.NODE_ENV === 'production'
    pendingIncrements, \* incrementAccessCount(id) promises not yet run: id -> count
    retrieved,       \* id -> number of getQR(id) calls that returned a record
    call,            \* the getQR call in flight in SpecInFlight, or NoRecord
    response,        \* the last HTTP response sent in SpecRoutes, or NoRecord
    batch,           \* the POST /batch request in flight in SpecBatch, or NoRecord
    hung,            \* the databases whose queries never call back (SpecHang)
    rendering,       \* the POST /generate requests awaiting QRCode.toBuffer
                     \* (SpecOverrides)
    cleanups,        \* the two cleanupExpired invocations of SpecCleanup
    generating,      \* the generateQR call in flight in SpecSlowInsert, or NoRecord
    service,         \* CleanupService: its isRunning flag and what its last call did
    master,          \* the cluster master: its workers, pending exit events and SIGTERM
    issued           \* history: what generateQR returned for id, the userId it was
                     \* called with, and whether deleteQR(id) has returned true since

vars == <<sqliteRows, pgRows, memoryStore, redis, scanLogs, sqliteUp, pgUp, redisUp,
          now, nextId, envExpiryHours, production, pendingIncrements, retrieved,
          call, response, batch, hung, rendering, cleanups, generating, service, master, issued>>

\* ------------------------------------------------------------ pure parts

\* QRCode.toBuffer(data, qrOptions) as a data URL: a function of the payload
Render(data) == <<"data:image/png;base64", data>>

\* the UTC calendar day of a timestamp: the first 10 characters of its text
Day(t) == t \div TicksPerDay

\* TEXT comparison  expires_at > datetime('now')  in SQLite: the ISO text
\* 'YYYY-MM-DDTHH:MM:SS.sssZ' against 'YYYY-MM-DD HH:MM:SS'; equal days are
\* decided by 'T' > ' '
SqliteTextGreater(iso, t) == Day(iso) >= Day(t)

\* TEXT comparison  expires_at < datetime('now')  in SQLite
SqliteTextLess(iso, t) == Day(iso) < Day(t)

\* parseInt(process.env.QR_CODE_EXPIRY_HOURS) || 24
ExpiryHours(env) == IF env = 0 THEN DefaultExpiryHours ELSE env

\* PublicView with the access count as it will be after the increment
PublicViewIncremented(rec) ==
    [id |-> rec.id, data |-> rec.data, qrImageUrl |-> rec.qr_image_url,
     createdAt |-> rec.created_at, expiresAt |-> rec.expires_at,
     accessCount |-> rec.access_count + 1]

\* the object generateQR and getQR return
PublicView(rec) ==
    [id |-> rec.id, data |-> rec.data, qrImageUrl |-> rec.qr_image_url,
     createdAt |-> rec.created_at, expiresAt |-> rec.expires_at,
     accessCount |-> rec.access_count]

\* the record generateQR builds before any insert (no user_id, no is_active)
InitialRecord(id, data, expiresAt, t) ==
    [id |-> id, data |-> data, qr_image_url |-> Render(data), created_at |-> t,
     expires_at |-> expiresAt, access_count |-> 0, user_id |-> Undefined,
     metadata |-> Undefined, is_active |-> Undefined]

\* the row INSERT INTO qr_codes creates (column defaults filled in)
InsertedRow(id, data, expiresAt, userId, t) ==
    [id |-> id, data |-> data, qr_image_url |-> Render(data), created_at |-> t,
     expires_at |-> expiresAt, access_count |-> 0, user_id |-> userId,
     metadata |-> "{}", is_active |-> True]

\* ------------------------------------------------------------ Redis cache

\* an exception that leaves a try block
Thrown == [error |-> "thrown"]

\* getCache without the test of client.isOpen and without its catch
getCacheUnguarded(id) ==
    IF ~redisUp THEN Thrown
    ELSE IF redis[id] # NoRecord /\ now < redis[id].expireAt
    THEN redis[id].value ELSE NoRecord

\* getCache(key): null when Redis is not available or the key is absent
getCache(id) ==
    IF redisUp /\ redis[id] # NoRecord /\ now < redis[id].expireAt
    THEN redis[id].value ELSE NoRecord

\* setCache that writes nothing
setCacheDropped(keys, id, value, ttl) == keys

\* setCache(key, value, expireInSeconds): the keys after the call;
\* SETEX rejects an expire time of 0
setCache(keys, id, value, ttl) ==
    IF redisUp /\ ttl > 0
    THEN [keys EXCEPT ![id] = [value |-> value, expireAt |-> now + ttl]]
    ELSE keys

\* what setCache returns: true when SETEX was done, false when Redis is not
\* available or SETEX threw
setCacheResult(ttl) == redisUp /\ ttl > 0

\* what deleteCache returns: true when DEL was done
deleteCacheResult == redisUp

\* deleteCache(key): the keys after the call
deleteCache(keys, id) ==
    IF redisUp THEN [keys EXCEPT ![id] = NoRecord] ELSE keys

\* ------------------------------------------------------------ statements

\* SELECT * FROM qr_codes WHERE id = ? AND is_active = 1
\*   AND (expires_at IS NULL OR expires_at > datetime('now'))      (SQLite)
SqliteSelectVisible(id) ==
    IF /\ sqliteRows[id] # NoRecord
       /\ sqliteRows[id].is_active = True
       /\ \/ sqliteRows[id].expires_at = NullTime
          \/ SqliteTextGreater(sqliteRows[id].expires_at, now)
    THEN sqliteRows[id] ELSE NoRecord

\* SELECT * FROM qr_codes WHERE id = $1 AND is_active = true
\*   AND (expires_at IS NULL OR expires_at > NOW())                 (PostgreSQL)
PgSelectVisible(id) ==
    IF /\ pgRows[id] # NoRecord
       /\ pgRows[id].is_active = True
       /\ \/ pgRows[id].expires_at = NullTime
          \/ pgRows[id].expires_at > now
    THEN pgRows[id] ELSE NoRecord

\* Retire that also clears the owner of the row
RetireDisowns(rows, id, userId) ==
    IF rows[id] # NoRecord /\ (userId # Null => rows[id].user_id = userId)
    THEN [rows EXCEPT ![id].is_active = False, ![id].user_id = Null] ELSE rows

\* UPDATE qr_codes SET is_active = 0 WHERE id = ? [AND user_id = ?]: the rows
\* the WHERE clause matches (rowCount counts them, changed or not)
UpdateMatches(rows, id, userId) ==
    /\ rows[id] # NoRecord
    /\ userId # Null => rows[id].user_id = userId

\* the table after that UPDATE
Retire(rows, id, userId) ==
    IF UpdateMatches(rows, id, userId)
    THEN [rows EXCEPT ![id].is_active = False] ELSE rows

\* the number of workers the master forks at start: os.cpus().length
numCPUs == 4

\* the master after its for loop: numCPUs workers, no exit event waiting, no
\* SIGTERM received
NoWorkersLost ==
    [live |-> numCPUs, killed |-> 0, exits |-> 0, sigterm |-> FALSE, forks |-> 0]

\* no cleanupExpired invocation has started
NoCleanups == [pc |-> <<"idle", "idle">>, deletedCount |-> <<0, 0>>, removed |-> 0]

\* ------------------------------------------------------------------ Init

Init ==
    /\ sqliteRows = [i \in Ids |-> NoRecord]
    /\ pgRows = [i \in Ids |-> NoRecord]
    /\ memoryStore = [i \in Ids |-> NoRecord]
    /\ redis = [i \in Ids |-> NoRecord]
    /\ scanLogs = [i \in Ids |-> 0]
    /\ sqliteUp \in BOOLEAN
    /\ pgUp \in BOOLEAN
    /\ redisUp \in BOOLEAN
    /\ now = 0
    /\ nextId = 1
    /\ envExpiryHours = 0
    /\ production \in BOOLEAN
    /\ pendingIncrements = [i \in Ids |-> 0]
    /\ retrieved = [i \in Ids |-> 0]
    /\ call = NoRecord
    /\ response = NoRecord
    /\ batch = NoRecord
    /\ hung = {}
    /\ rendering = {}
    /\ cleanups = NoCleanups
    /\ generating = NoRecord
    /\ service = [isRunning |-> FALSE, last |-> "none"]
    /\ master = NoWorkersLost
    /\ issued = [i \in Ids |-> NoRecord]

\* --------------------------------------------------------------- actions

Max(a, b) == IF a > b THEN a ELSE b

\* the tier whose insert generateQR ends with: SQLite, PostgreSQL when the
\* SQLite insert threw, the memory store when both threw
InsertTier == IF sqliteUp THEN "sqlite" ELSE IF pgUp THEN "pg" ELSE "memory"

\* a payload PostgreSQL refuses although the pool answers: a text with a NUL
\* character, which no TEXT column takes
RejectedPayload == "p0"

\* await query(insertQuery, ...) throws for a reason other than the pool being
\* unreachable
PgRejects(data) == data = RejectedPayload

\* InsertTierOf with every record sent to the memory store
InsertTierMemoryOnly(data) == "memory"

\* the tier the insert of this payload ends in: catch (pgError) does not look
\* at the error, so a refused PostgreSQL insert goes on to the memory store
InsertTierOf(data) ==
    IF InsertTier = "pg" /\ PgRejects(data) THEN "memory" ELSE InsertTier

\* generateQRThrows without the test of NODE_ENV
generateQRThrowsRenderOnly(rendered) == ~rendered

\* generateQR throws 'Failed to generate QR code': QRCode.toBuffer threw, or
\* the record went to the memory store in production
generateQRThrows(rendered) ==
    ~rendered \/ (InsertTier = "memory" /\ production)

\* ReachesInsert with the image rendered only after the inserts
ReachesInsertAlways(rendered) == TRUE

\* generateQR gets as far as its inserts: QRCode.toBuffer, awaited first, has
\* not thrown
ReachesInsert(rendered) == rendered

\* POST /api/qr/generate and QRService.generateQR(data, options): the route
\* writes an expiryHours override into process.env, the service renders,
\* inserts into the first tier that answers and caches the record.
\* rendered = FALSE is QRCode.toBuffer throwing.
generateQR(data, userId, expiryHours, rendered) ==
    /\ rendered => nextId <= MaxIds
    /\ LET id == nextId
           env == IF expiryHours # 0 THEN expiryHours ELSE envExpiryHours
           hours == ExpiryHours(env)
           expiresAt == now + hours
           tier == InsertTierOf(data)
           qrRecord == IF tier = "memory"
                       THEN InitialRecord(id, data, expiresAt, now)
                       ELSE InsertedRow(id, data, expiresAt, userId, now)
           failed == IF tier = InsertTier THEN generateQRThrows(rendered)
                     ELSE ~rendered \/ production
       IN  /\ envExpiryHours' = env
           /\ nextId' = IF rendered THEN nextId + 1 ELSE nextId
           /\ sqliteRows' = IF ReachesInsert(rendered) /\ tier = "sqlite"
                            THEN [sqliteRows EXCEPT ![id] = qrRecord] ELSE sqliteRows
           /\ pgRows' = IF ReachesInsert(rendered) /\ tier = "pg"
                        THEN [pgRows EXCEPT ![id] = qrRecord] ELSE pgRows
           /\ memoryStore' = IF ReachesInsert(rendered) /\ tier = "memory"
                             THEN [memoryStore EXCEPT ![id] = qrRecord] ELSE memoryStore
           /\ redis' = IF failed THEN redis ELSE setCache(redis, id, qrRecord, hours)
           /\ issued' = IF failed THEN issued
                        ELSE [issued EXCEPT ![id] =
                                [view |-> PublicView(qrRecord), owner |-> userId,
                                 deleted |-> FALSE]]
    /\ UNCHANGED <<scanLogs, sqliteUp, pgUp, redisUp, now, production,
                   pendingIncrements, retrieved, call>>

\* await sqliteQuery(selectQuery, [id]): the row, no row, or the exception of
\* an unavailable SQLite
sqliteQuerySelect(id) == IF sqliteUp THEN SqliteSelectVisible(id) ELSE Thrown

\* await query(selectQuery, [id]) on PostgreSQL
querySelect(id) == IF pgUp THEN PgSelectVisible(id) ELSE Thrown

\* FromDatabase with the exception of the PostgreSQL query left uncaught
FromDatabasePgUncaught(id) ==
    IF sqliteQuerySelect(id) # Thrown THEN sqliteQuerySelect(id)
    ELSE querySelect(id)

\* what the store tiers answer getQR after a cache miss: SQLite when it
\* answers, PostgreSQL only when the SQLite query threw
FromDatabase(id) ==
    IF sqliteQuerySelect(id) # Thrown THEN sqliteQuerySelect(id)
    ELSE IF querySelect(id) # Thrown THEN querySelect(id)
    ELSE NoRecord

\* the memory record getQR finds expired: it deletes it and throws
MemoryExpired(id) ==
    /\ memoryStore[id] # NoRecord
    /\ memoryStore[id].expires_at # NullTime
    /\ memoryStore[id].expires_at < now

\* FromTiers without the step to the memory store
FromTiersDbOnly(id) == FromDatabase(id)

\* the record getQR finds in the store tiers after a cache miss
FromTiers(id) ==
    IF FromDatabase(id) # NoRecord THEN FromDatabase(id)
    ELSE IF memoryStore[id] # NoRecord /\ ~MemoryExpired(id) THEN memoryStore[id]
    ELSE NoRecord

\* the record getQR(id) serves: the cached one, else the one of the tiers
Lookup(id) ==
    IF getCache(id) # NoRecord THEN getCache(id) ELSE FromTiers(id)

\* the ttl getQR caches a record with
CacheTtl(rec) ==
    IF rec.expires_at # NullTime THEN Max(0, rec.expires_at - now)
    ELSE DefaultCacheTtl

\* the getQR calls that have returned a record so far
RECURSIVE Sum(_, _)
Sum(f, S) == IF S = {} THEN 0 ELSE LET i == CHOOSE i \in S : TRUE IN f[i] + Sum(f, S \ {i})
Retrievals == Sum(retrieved, Ids)

\* new Error('QR code not found or expired')
NotFound == [error |-> "QR code not found or expired"]

\* what getQR(id) returns to its caller in the current state; its outer
\* catch rethrows whatever was thrown inside
getQRResult(id) ==
    IF Lookup(id) = Thrown THEN Thrown
    ELSE IF Lookup(id) = NoRecord THEN NotFound
    ELSE PublicView(Lookup(id))

\* getQR with the scan logged before the record is looked up
getQRLogsFirst(id) ==
    LET qrRecord == Lookup(id)
        found == getQRResult(id) # NotFound
        miss == getCache(id) = NoRecord
    IN  /\ found => Retrievals < MaxRetrieves
        /\ memoryStore' = IF miss /\ FromDatabase(id) = NoRecord /\ MemoryExpired(id)
                          THEN [memoryStore EXCEPT ![id] = NoRecord] ELSE memoryStore
        /\ redis' = IF found /\ miss
                    THEN setCache(redis, id, qrRecord, CacheTtl(qrRecord)) ELSE redis
        /\ scanLogs' = IF sqliteUp
                       THEN [scanLogs EXCEPT ![id] = @ + 1] ELSE scanLogs
        /\ pendingIncrements' = IF found
                                THEN [pendingIncrements EXCEPT ![id] = @ + 1]
                                ELSE pendingIncrements
        /\ retrieved' = IF found THEN [retrieved EXCEPT ![id] = @ + 1] ELSE retrieved
        /\ UNCHANGED <<sqliteRows, pgRows, sqliteUp, pgUp, redisUp, now, nextId,
                       envExpiryHours, production, issued, call>>

\* QRService.getQR(id, scannerInfo)
getQR(id) ==
    LET qrRecord == Lookup(id)
        found == getQRResult(id) # NotFound
        miss == getCache(id) = NoRecord
    IN  /\ found => Retrievals < MaxRetrieves
        /\ memoryStore' = IF miss /\ FromDatabase(id) = NoRecord /\ MemoryExpired(id)
                          THEN [memoryStore EXCEPT ![id] = NoRecord] ELSE memoryStore
        /\ redis' = IF found /\ miss
                    THEN setCache(redis, id, qrRecord, CacheTtl(qrRecord)) ELSE redis
        /\ scanLogs' = IF found /\ sqliteUp
                       THEN [scanLogs EXCEPT ![id] = @ + 1] ELSE scanLogs
        /\ pendingIncrements' = IF found
                                THEN [pendingIncrements EXCEPT ![id] = @ + 1]
                                ELSE pendingIncrements
        /\ retrieved' = IF found THEN [retrieved EXCEPT ![id] = @ + 1] ELSE retrieved
        /\ UNCHANGED <<sqliteRows, pgRows, sqliteUp, pgUp, redisUp, now, nextId,
                       envExpiryHours, production, issued, call>>

\* Increment that adds 2
IncrementTwice(rows, id) ==
    IF rows[id] # NoRecord
    THEN [rows EXCEPT ![id].access_count = @ + 2] ELSE rows

\* UPDATE qr_codes SET access_count = access_count + 1 WHERE id = ?
Increment(rows, id) ==
    IF rows[id] # NoRecord
    THEN [rows EXCEPT ![id].access_count = @ + 1] ELSE rows

\* QRService.incrementAccessCount(id): the detached promise getQR started
incrementAccessCount(id) ==
    /\ pendingIncrements[id] > 0
    /\ pendingIncrements' = [pendingIncrements EXCEPT ![id] = @ - 1]
    /\ sqliteRows' = IF sqliteUp THEN Increment(sqliteRows, id) ELSE sqliteRows
    /\ pgRows' = IF ~sqliteUp /\ pgUp THEN Increment(pgRows, id) ELSE pgRows
    /\ memoryStore' = IF ~sqliteUp /\ ~pgUp
                      THEN Increment(memoryStore, id) ELSE memoryStore
    /\ UNCHANGED <<response, batch, hung, rendering, cleanups, generating, service, master, redis, scanLogs, sqliteUp, pgUp, redisUp, now, nextId,
                   envExpiryHours, production, retrieved, issued, call>>

\* the tiers deleteQR reports a deletion from
DeletedFrom(id, userId) ==
    {t \in {"sqlite", "pg", "memory"} :
        \/ t = "sqlite" /\ sqliteUp /\ UpdateMatches(sqliteRows, id, userId)
        \/ t = "pg" /\ ~sqliteUp /\ pgUp /\ UpdateMatches(pgRows, id, userId)
        \/ t = "memory" /\ memoryStore[id] # NoRecord}

\* what deleteQR(id, userId) returns in the current state: true, or FALSE
\* for new Error('QR code not found or access denied')
deleteQRResult(id, userId) == DeletedFrom(id, userId) # {}

\* QRService.deleteQR(id, userId)
deleteQR(id, userId) ==
    LET deleted == deleteQRResult(id, userId)
    IN  /\ sqliteRows' = IF sqliteUp THEN Retire(sqliteRows, id, userId)
                         ELSE sqliteRows
        /\ pgRows' = IF ~sqliteUp /\ pgUp THEN Retire(pgRows, id, userId) ELSE pgRows
        /\ memoryStore' = [memoryStore EXCEPT ![id] = NoRecord]
        /\ redis' = IF deleted THEN deleteCache(redis, id) ELSE redis
        /\ issued' = IF deleted /\ issued[id] # NoRecord
                     THEN [issued EXCEPT ![id].deleted = TRUE] ELSE issued
        /\ UNCHANGED <<scanLogs, sqliteUp, pgUp, redisUp, now, nextId,
                       envExpiryHours, production, pendingIncrements, retrieved, call>>

\* DELETE FROM qr_codes WHERE expires_at < datetime('now'): the rows SQLite deletes
SqliteExpired ==
    {i \in Ids : /\ sqliteRows[i] # NoRecord
                 /\ sqliteRows[i].expires_at # NullTime
                 /\ SqliteTextLess(sqliteRows[i].expires_at, now)}

\* DELETE FROM qr_codes WHERE expires_at < NOW(): the rows PostgreSQL deletes
PgExpired ==
    {i \in Ids : /\ pgRows[i] # NoRecord
                 /\ pgRows[i].expires_at # NullTime
                 /\ pgRows[i].expires_at < now}

\* MemoryExpiredIds without the test of expires_at
MemoryHeldIds == {i \in Ids : memoryStore[i] # NoRecord}

\* the records the loop over memoryStore deletes
MemoryExpiredIds == {i \in Ids : MemoryExpired(i)}

\* the tiers cleanupExpired purges: SQLite when it answers, PostgreSQL only
\* when the SQLite statement threw, the memory store always
Purged ==
    [sqlite |-> IF sqliteUp THEN SqliteExpired ELSE {},
     pg |-> IF ~sqliteUp /\ pgUp THEN PgExpired ELSE {},
     memory |-> MemoryExpiredIds]

\* table t without the rows gone
Without(rows, gone) == [i \in Ids |-> IF i \in gone THEN NoRecord ELSE rows[i]]

\* the deletedCount cleanupExpired returns
deletedCount ==
    Cardinality(Purged.sqlite) + Cardinality(Purged.pg) + Cardinality(Purged.memory)

\* QRService.cleanupExpired()
cleanupExpired ==
    /\ sqliteRows' = Without(sqliteRows, Purged.sqlite)
    /\ pgRows' = Without(pgRows, Purged.pg)
    /\ memoryStore' = Without(memoryStore, Purged.memory)
    /\ UNCHANGED <<response, batch, hung, rendering, cleanups, generating, service, master, redis, scanLogs, sqliteUp, pgUp, redisUp, now, nextId,
                   envExpiryHours, production, pendingIncrements, retrieved, issued, call>>

\* ------------------------------------------------------------ statistics

\* the object the outer catch of getStats returns
ZeroStats ==
    [total_codes |-> 0, active_codes |-> 0, total_accesses |-> 0,
     total_scans |-> 0, unique_scanners |-> 0, scanned_codes |-> 0]

\* SUM(access_count) over the rows with an id in S (|| 0 when there is none)
TotalAccesses(rows, S) ==
    Sum([i \in Ids |-> IF i \in S THEN rows[i].access_count ELSE 0], Ids)

\* the rows  WHERE [user_id = ? AND] is_active = 1  selects
StatsRows(rows, userId) ==
    {i \in Ids : /\ rows[i] # NoRecord
                 /\ rows[i].is_active = True
                 /\ userId # Null => rows[i].user_id = userId}

\* getScanStats(null, userId): the scan log joined with the active rows of
\* qr_codes; zeros when the query fails.  Every request of the model comes
\* from one address.
getScanStats(userId, answers) ==
    LET scanned == {i \in StatsRows(sqliteRows, userId) : scanLogs[i] > 0}
    IN  IF sqliteUp /\ answers
        THEN [scanned_codes |-> Cardinality(scanned),
              total_scans |-> Sum([i \in Ids |-> IF i \in scanned THEN scanLogs[i] ELSE 0], Ids),
              unique_scanners |-> IF scanned = {} THEN 0 ELSE 1]
        ELSE [scanned_codes |-> 0, total_scans |-> 0, unique_scanners |-> 0]

\* the SQLite branch of getStats: the counts, or the exception of the query
SqliteStats(userId, scanLogAnswers) ==
    IF ~sqliteUp THEN Thrown
    ELSE LET S == StatsRows(sqliteRows, userId)
             scanStats == getScanStats(userId, scanLogAnswers)
         IN  [total_codes |-> Cardinality(S),
              active_codes |-> Cardinality({i \in S :
                                  \/ sqliteRows[i].expires_at = NullTime
                                  \/ SqliteTextGreater(sqliteRows[i].expires_at, now)}),
              total_accesses |-> TotalAccesses(sqliteRows, S),
              total_scans |-> scanStats.total_scans,
              unique_scanners |-> scanStats.unique_scanners,
              scanned_codes |-> scanStats.scanned_codes]

\* the PostgreSQL branch of getStats
PgStats(userId) ==
    IF ~pgUp THEN Thrown
    ELSE LET S == StatsRows(pgRows, userId)
         IN  [total_codes |-> Cardinality(S),
              active_codes |-> Cardinality({i \in S :
                                  \/ pgRows[i].expires_at = NullTime
                                  \/ pgRows[i].expires_at > now}),
              total_accesses |-> TotalAccesses(pgRows, S),
              total_scans |-> 0, unique_scanners |-> 0, scanned_codes |-> 0]

\* the memory branch of getStats: the loop over memoryStore
MemoryStats(userId) ==
    LET S == {i \in Ids : /\ memoryStore[i] # NoRecord
                          /\ userId # Null => memoryStore[i].user_id = userId}
    IN  [total_codes |-> Cardinality(S),
         active_codes |-> Cardinality({i \in S :
                             \/ memoryStore[i].expires_at = NullTime
                             \/ memoryStore[i].expires_at > now}),
         total_accesses |-> TotalAccesses(memoryStore, S),
         total_scans |-> 0, unique_scanners |-> 0, scanned_codes |-> 0]

\* getStats with the exception of the PostgreSQL query left uncaught
getStatsPgUncaught(userId, scanLogAnswers) ==
    IF SqliteStats(userId, scanLogAnswers) # Thrown
    THEN SqliteStats(userId, scanLogAnswers)
    ELSE PgStats(userId)

\* getStats that asks PostgreSQL before SQLite
getStatsPgFirst(userId, scanLogAnswers) ==
    IF PgStats(userId) # Thrown THEN PgStats(userId)
    ELSE IF SqliteStats(userId, scanLogAnswers) # Thrown
    THEN SqliteStats(userId, scanLogAnswers)
    ELSE MemoryStats(userId)

\* QRService.getStats(userId): what it returns in the current state;
\* scanLogAnswers = FALSE is the scan log query failing
getStats(userId, scanLogAnswers) ==
    IF SqliteStats(userId, scanLogAnswers) # Thrown
    THEN SqliteStats(userId, scanLogAnswers)
    ELSE IF PgStats(userId) # Thrown THEN PgStats(userId)
    ELSE IF MemoryStats(userId) # Thrown THEN MemoryStats(userId)
    ELSE ZeroStats

\* ----------------------------------------------------------- environment

\* time passes; Redis drops the keys whose time to live has run out
Tick ==
    /\ now < MaxTime
    /\ now' = now + 1
    /\ redis' = [i \in Ids |->
                    IF redis[i] # NoRecord /\ redis[i].expireAt <= now + 1
                    THEN NoRecord ELSE redis[i]]
    /\ UNCHANGED <<response, batch, hung, rendering, cleanups, generating, service, master, sqliteRows, pgRows, memoryStore, scanLogs, sqliteUp, pgUp, redisUp,
                   nextId, envExpiryHours, production, pendingIncrements, retrieved,
                   issued, call>>

\* the SQLite handle is lost or comes back
SqliteToggle ==
    /\ sqliteUp' = ~sqliteUp
    /\ UNCHANGED <<response, batch, hung, rendering, cleanups, generating, service, master, sqliteRows, pgRows, memoryStore, redis, scanLogs, pgUp, redisUp, now,
                   nextId, envExpiryHours, production, pendingIncrements, retrieved,
                   issued, call>>

\* the PostgreSQL pool is lost or comes back
PgToggle ==
    /\ pgUp' = ~pgUp
    /\ UNCHANGED <<response, batch, hung, rendering, cleanups, generating, service, master, sqliteRows, pgRows, memoryStore, redis, scanLogs, sqliteUp, redisUp,
                   now, nextId, envExpiryHours, production, pendingIncrements,
                   retrieved, issued, call>>

\* the Redis connection is lost or comes back
RedisToggle ==
    /\ redisUp' = ~redisUp
    /\ UNCHANGED <<response, batch, hung, rendering, cleanups, generating, service, master, sqliteRows, pgRows, memoryStore, redis, scanLogs, sqliteUp, pgUp,
                   now, nextId, envExpiryHours, production, pendingIncrements,
                   retrieved, issued, call>>

\* a generate request without expiryHours
Generate ==
    /\ now <= MaxGenerateTime
    /\ \E req \in Requests, rendered \in BOOLEAN :
           generateQR(req.data, req.userId, 0, rendered)
    /\ UNCHANGED <<response, batch, hung, rendering, cleanups, generating, service, master>>

Retrieve == (\E id \in Ids : getQR(id)) /\ UNCHANGED <<response, batch, hung, rendering, cleanups, generating, service, master>>

IncrementAccess == \E id \in Ids : incrementAccessCount(id)

Delete ==
    /\ \E id \in Ids, userId \in UserIds : deleteQR(id, userId)
    /\ UNCHANGED <<response, batch, hung, rendering, cleanups, generating, service, master>>

Next ==
    \/ Generate
    \/ Retrieve
    \/ IncrementAccess
    \/ Delete
    \/ cleanupExpired
    \/ Tick
    \/ SqliteToggle
    \/ PgToggle
    \/ RedisToggle

Spec == Init /\ [][Next]_vars

\* the same service while the availability of SQLite, PostgreSQL and Redis
\* stays what it was at start
NextStable ==
    \/ Generate
    \/ Retrieve
    \/ IncrementAccess
    \/ Delete
    \/ cleanupExpired
    \/ Tick

SpecStable == Init /\ [][NextStable]_vars


\* the service called with payloads PostgreSQL accepts and with one it refuses
RejectedRequests == {[data |-> RejectedPayload, userId |-> "u2"]}

GenerateAny ==
    /\ now <= MaxGenerateTime
    /\ \E req \in Requests \cup RejectedRequests, rendered \in BOOLEAN :
           generateQR(req.data, req.userId, 0, rendered)
    /\ UNCHANGED <<response, batch, hung, rendering, cleanups, generating, service, master>>

NextReject ==
    \/ GenerateAny
    \/ Retrieve
    \/ Tick
    \/ SqliteToggle
    \/ PgToggle

SpecReject == Init /\ [][NextReject]_vars

\* ------------------------------------------------- getQR, await by await

\* getQR(id) up to the answer of Redis: a hit goes on to the scan log, a miss
\* to the SQLite query
getQRBegin(id) ==
    /\ call = NoRecord
    /\ call' = [id |-> id,
                pc |-> IF getCache(id) # NoRecord THEN "logScan" ELSE "sqlite",
                qrRecord |-> getCache(id),
                afterDelete |-> issued[id] # NoRecord /\ issued[id].deleted]
    /\ UNCHANGED <<response, batch, hung, rendering, cleanups, generating, service, master, sqliteRows, pgRows, memoryStore, redis, scanLogs, sqliteUp, pgUp,
                   redisUp, now, nextId, envExpiryHours, production,
                   pendingIncrements, retrieved, issued>>

\* the call in flight goes on with what the database answered: with the row,
\* else with the memory record; an expired memory record is deleted and the
\* call throws, as it does when there is no record at all
Continue(fromDatabase) ==
    LET id == call.id
        useMemory == fromDatabase = NoRecord /\ memoryStore[id] # NoRecord
        qrRecord == IF fromDatabase # NoRecord THEN fromDatabase
                    ELSE IF useMemory /\ ~MemoryExpired(id) THEN memoryStore[id]
                    ELSE NoRecord
    IN  /\ memoryStore' = IF useMemory /\ MemoryExpired(id)
                          THEN [memoryStore EXCEPT ![id] = NoRecord] ELSE memoryStore
        /\ call' = IF qrRecord = NoRecord THEN NoRecord
                   ELSE [call EXCEPT !.pc = "setCache", !.qrRecord = qrRecord]

\* the SQLite query of the call in flight answers or throws; the promise of
\* query() settles only when db.all calls back
getQRSqlite ==
    /\ call # NoRecord
    /\ call.pc = "sqlite"
    /\ "sqlite" \notin hung
    /\ IF sqliteUp THEN Continue(SqliteSelectVisible(call.id))
       ELSE call' = [call EXCEPT !.pc = "pg"] /\ UNCHANGED memoryStore
    /\ UNCHANGED <<response, batch, hung, rendering, cleanups, generating, service, master, sqliteRows, pgRows, redis, scanLogs, sqliteUp, pgUp, redisUp, now,
                   nextId, envExpiryHours, production, pendingIncrements, retrieved,
                   issued>>

\* the PostgreSQL query of the call in flight answers or throws; the promise
\* of pool.query settles only when the server answers
getQRPg ==
    /\ call # NoRecord
    /\ call.pc = "pg"
    /\ "pg" \notin hung
    /\ Continue(IF pgUp THEN PgSelectVisible(call.id) ELSE NoRecord)
    /\ UNCHANGED <<response, batch, hung, rendering, cleanups, generating, service, master, sqliteRows, pgRows, redis, scanLogs, sqliteUp, pgUp, redisUp, now,
                   nextId, envExpiryHours, production, pendingIncrements, retrieved,
                   issued>>

\* the call in flight caches the record it found in a tier
getQRSetCache ==
    /\ call # NoRecord
    /\ call.pc = "setCache"
    /\ redis' = setCache(redis, call.id, call.qrRecord, CacheTtl(call.qrRecord))
    /\ call' = [call EXCEPT !.pc = "logScan"]
    /\ UNCHANGED <<response, batch, hung, rendering, cleanups, generating, service, master, sqliteRows, pgRows, memoryStore, scanLogs, sqliteUp, pgUp, redisUp,
                   now, nextId, envExpiryHours, production, pendingIncrements,
                   retrieved, issued>>

\* the call in flight logs the scan, starts incrementAccessCount and returns
getQRLogScan ==
    /\ call # NoRecord
    /\ call.pc = "logScan"
    /\ Retrievals < MaxRetrieves
    /\ scanLogs' = IF sqliteUp THEN [scanLogs EXCEPT ![call.id] = @ + 1] ELSE scanLogs
    /\ pendingIncrements' = [pendingIncrements EXCEPT ![call.id] = @ + 1]
    /\ retrieved' = [retrieved EXCEPT ![call.id] = @ + 1]
    /\ call' = NoRecord
    /\ UNCHANGED <<response, batch, hung, rendering, cleanups, generating, service, master, sqliteRows, pgRows, memoryStore, redis, sqliteUp, pgUp, redisUp, now,
                   nextId, envExpiryHours, production, issued>>

\* a client asks for an id that generateQR has handed out
RetrieveBegin == \E id \in Ids : id < nextId /\ getQRBegin(id)

\* the Redis client, still connecting or reconnecting, becomes ready
RedisReady ==
    /\ ~redisUp
    /\ redisUp' = TRUE
    /\ UNCHANGED <<response, batch, hung, rendering, cleanups, generating, service, master, sqliteRows, pgRows, memoryStore, redis, scanLogs, sqliteUp, pgUp,
                   now, nextId, envExpiryHours, production, pendingIncrements,
                   retrieved, call, issued>>

\* requests served concurrently: a getQR call proceeds await by await while
\* generateQR and deleteQR calls run; SQLite and PostgreSQL stay as available
\* as they were at start, and Redis may become ready
NextInFlight ==
    \/ Generate
    \/ RetrieveBegin
    \/ getQRSqlite
    \/ getQRPg
    \/ getQRSetCache
    \/ getQRLogScan
    \/ IncrementAccess
    \/ Delete
    \/ RedisReady

SpecInFlight == Init /\ [][NextInFlight]_vars

\* a database that is open stops calling back: its queries neither answer
\* nor throw
Hang ==
    /\ \E tier \in {"sqlite", "pg"} :
          /\ tier \notin hung
          /\ IF tier = "sqlite" THEN sqliteUp ELSE pgUp
          /\ hung' = hung \cup {tier}
    /\ UNCHANGED <<response, batch, rendering, cleanups, generating, service, master, sqliteRows, pgRows, memoryStore, redis, scanLogs,
                   sqliteUp, pgUp, redisUp, now, nextId, envExpiryHours, production,
                   pendingIncrements, retrieved, call, issued>>

\* generateQR while every database calls back
GenerateBeforeHang == hung = {} /\ Generate

\* a getQR call that the bound on retrievals lets finish
RetrieveBeginBounded == Retrievals < MaxRetrieves /\ RetrieveBegin

\* a getQR call proceeds await by await while a database may stop calling
\* back; every await whose promise has settled is resumed by the event loop
NextHang ==
    \/ GenerateBeforeHang
    \/ RetrieveBeginBounded
    \/ getQRSqlite
    \/ getQRPg
    \/ getQRSetCache
    \/ getQRLogScan
    \/ Hang

SpecHang ==
    /\ Init
    /\ [][NextHang]_vars
    /\ WF_vars(getQRSqlite)
    /\ WF_vars(getQRPg)
    /\ WF_vars(getQRSetCache)
    /\ WF_vars(getQRLogScan)

\* the service and its cache: Redis comes and goes while the availability of
\* SQLite and PostgreSQL stays what it was at start
NextCache ==
    \/ Generate
    \/ Retrieve
    \/ Delete
    \/ RedisToggle
    \/ Tick

SpecCache == Init /\ [][NextCache]_vars

\* ------------------------------------------------------------ HTTP routes
\* (requests that the rate limiter lets through)

\* Joi.string().required().max(2048)
MaxDataLength == 2048

\* Joi.number().optional().min(1).max(8760): 8760 hours, in ticks
MaxExpiryHours == 365 * TicksPerDay

\* a path parameter that is no UUID ('invalid-uuid')
MalformedId == 0

\* the payload texts of the requests: 'x2048' is 'x'.repeat(2048)
Length(data) ==
    CASE data = "" -> 0
      [] data \in {"p1", "p2"} -> 2
      [] data = "x2048" -> MaxDataLength
      [] data = "x2049" -> MaxDataLength + 1

\* the bodies of POST /generate: expiryHours = 0 is a body without expiryHours
GenerateBodies ==
    {[data |-> "x2048", userId |-> Null, expiryHours |-> 0],
     [data |-> "p2", userId |-> "u1", expiryHours |-> 1],
     [data |-> "", userId |-> Null, expiryHours |-> 0],
     [data |-> "x2049", userId |-> Null, expiryHours |-> 0]}

\* ValidData without the upper limit
ValidDataNoMax(data) == Length(data) >= 1

\* data: Joi.string().required().max(2048) (an empty string is rejected)
ValidData(data) == Length(data) >= 1 /\ Length(data) <= MaxDataLength

\* generateSchema.validate(req.body) reports no error
ValidGenerate(body) ==
    /\ ValidData(body.data)
    /\ body.expiryHours = 0
       \/ (body.expiryHours >= 1 /\ body.expiryHours <= MaxExpiryHours)

\* idSchema.validate(req.params) reports no error
IsUuid(id) == id # MalformedId

\* the messages that include 'not found'
NotFoundMessages ==
    {"QR code not found or expired", "QR code not found or access denied"}

\* the status an error of the service ends with: 404 from the route's catch,
\* else 500 from the error handler
ErrorStatus(err) == IF err.error \in NotFoundMessages THEN 404 ELSE 500

\* new Error('QR code not found or access denied')
DeleteNotFound == [error |-> "QR code not found or access denied"]

\* what deleteQR(id, userId) throws: the only throw inside its outer try is
\* the one for deleted = false (NoRecord: it returns true)
deleteQRError(id, userId) ==
    IF deleteQRResult(id, userId) THEN NoRecord ELSE DeleteNotFound

\* every variable but response
serviceVars ==
    <<sqliteRows, pgRows, memoryStore, redis, scanLogs, sqliteUp, pgUp, redisUp,
      now, nextId, envExpiryHours, production, pendingIncrements, retrieved,
      call, batch, hung, rendering, cleanups, generating, service, master, issued>>

\* router.post('/generate')
PostGenerate(body, rendered) ==
    IF ~ValidGenerate(body)
    THEN /\ response' = [route |-> "POST /generate", status |-> 400, error |-> "Validation failed"]
         /\ UNCHANGED serviceVars
    ELSE /\ generateQR(body.data, body.userId, body.expiryHours, rendered)
         /\ UNCHANGED <<batch, hung, rendering, cleanups, generating, service, master>>
         /\ response' = IF generateQRThrows(rendered)
                        THEN [route |-> "POST /generate", status |-> 500, error |-> "Internal server error"]
                        ELSE [route |-> "POST /generate", status |-> 201, data |-> issued'[nextId].view]

\* router.get('/:id')
GetQR(id) ==
    IF ~IsUuid(id)
    THEN /\ response' = [route |-> "GET /:id", status |-> 400, error |-> "Invalid QR code ID format"]
         /\ UNCHANGED serviceVars
    ELSE /\ getQR(id)
         /\ UNCHANGED <<batch, hung, rendering, cleanups, generating, service, master>>
         /\ response' = IF "error" \in DOMAIN getQRResult(id)
                        THEN [route |-> "GET /:id", status |-> ErrorStatus(getQRResult(id)),
                              error |-> getQRResult(id).error]
                        ELSE [route |-> "GET /:id", status |-> 200, data |-> getQRResult(id)]

\* router.delete('/:id')
DeleteQR(id, userId) ==
    IF ~IsUuid(id)
    THEN /\ response' = [route |-> "DELETE /:id", status |-> 400, error |-> "Invalid QR code ID format"]
         /\ UNCHANGED serviceVars
    ELSE /\ deleteQR(id, userId)
         /\ UNCHANGED <<batch, hung, rendering, cleanups, generating, service, master>>
         /\ response' = IF deleteQRResult(id, userId)
                        THEN [route |-> "DELETE /:id", status |-> 200, message |-> "QR code deleted successfully"]
                        ELSE [route |-> "DELETE /:id", status |-> ErrorStatus(deleteQRError(id, userId)),
                              error |-> deleteQRError(id, userId).error]

PostGenerateRoute ==
    /\ now <= MaxGenerateTime
    /\ \E body \in GenerateBodies, rendered \in BOOLEAN : PostGenerate(body, rendered)

GetRoute == \E id \in Ids \cup {MalformedId} : GetQR(id)

DeleteRoute == \E id \in Ids \cup {MalformedId}, userId \in UserIds : DeleteQR(id, userId)

\* the service behind its routes, while the availability of SQLite,
\* PostgreSQL and Redis stays what it was at start
NextRoutes ==
    \/ PostGenerateRoute
    \/ GetRoute
    \/ DeleteRoute
    \/ Tick

SpecRoutes == Init /\ [][NextRoutes]_vars

\* ------------------------------------- POST /generate, await by await

\* the bodies of concurrent POST /generate requests: two with different
\* expiryHours and one without
OverrideBodies ==
    {[data |-> "p1", userId |-> Null, expiryHours |-> 1],
     [data |-> "p2", userId |-> "u1", expiryHours |-> 3],
     [data |-> "p2", userId |-> "u2", expiryHours |-> 0]}

\* router.post('/generate') and generateQR up to await QRCode.toBuffer: the
\* route has written the override into process.env
PostGenerateBegin(body) ==
    /\ body \notin rendering
    /\ ValidGenerate(body)
    /\ envExpiryHours' = IF body.expiryHours # 0 THEN body.expiryHours
                         ELSE envExpiryHours
    /\ rendering' = rendering \cup {body}
    /\ UNCHANGED <<response, batch, hung, cleanups, generating, service, master, sqliteRows, pgRows, memoryStore, redis,
                   scanLogs, sqliteUp, pgUp, redisUp, now, nextId, production,
                   pendingIncrements, retrieved, call, issued>>

\* generateQR after await QRCode.toBuffer: it reads process.env, inserts and
\* caches, and the route answers
PostGenerateEnd(body, rendered) ==
    /\ body \in rendering
    /\ generateQR(body.data, body.userId, 0, rendered)
    /\ rendering' = rendering \ {body}
    /\ response' = IF generateQRThrows(rendered)
                   THEN [route |-> "POST /generate", status |-> 500, error |-> "Internal server error"]
                   ELSE [route |-> "POST /generate", status |-> 201, data |-> issued'[nextId].view]
    /\ UNCHANGED <<batch, hung, cleanups, generating, service, master>>

GenerateBegin == \E body \in OverrideBodies : PostGenerateBegin(body)

GenerateEnd ==
    \E body \in OverrideBodies, rendered \in BOOLEAN : PostGenerateEnd(body, rendered)

\* POST /generate requests served concurrently
NextOverrides ==
    \/ GenerateBegin
    \/ GenerateEnd

SpecOverrides == Init /\ [][NextOverrides]_vars

\* ------------------------------------- cleanupExpired, await by await

\* the two invocations
Invocations == {1, 2}

\* the ids a table or the memory store holds
RowIds(rows) == {i \in Ids : rows[i] # NoRecord}

\* invocation k goes on at pc, after a statement or the loop that reported
\* rowCount rows and took gone rows away
CleanupStep(k, pc, rowCount, gone) ==
    cleanups' = [pc |-> [cleanups.pc EXCEPT ![k] = pc],
                 deletedCount |-> [cleanups.deletedCount EXCEPT ![k] = @ + rowCount],
                 removed |-> cleanups.removed + gone]

\* cleanupExpired() is called
cleanupBegin(k) ==
    /\ cleanups.pc[k] = "idle"
    /\ CleanupStep(k, "sqlite", 0, 0)
    /\ UNCHANGED <<sqliteRows, pgRows, memoryStore>>

\* the SQLite DELETE of invocation k runs, or throws
cleanupSqlite(k) ==
    /\ cleanups.pc[k] = "sqlite"
    /\ IF sqliteUp
       THEN /\ sqliteRows' = Without(sqliteRows, SqliteExpired)
            /\ CleanupStep(k, "memory", Cardinality(SqliteExpired),
                           Cardinality(RowIds(sqliteRows) \ RowIds(sqliteRows')))
       ELSE /\ CleanupStep(k, "pg", 0, 0)
            /\ UNCHANGED sqliteRows
    /\ UNCHANGED <<pgRows, memoryStore>>

\* the PostgreSQL DELETE of invocation k runs, or throws
cleanupPg(k) ==
    /\ cleanups.pc[k] = "pg"
    /\ IF pgUp
       THEN /\ pgRows' = Without(pgRows, PgExpired)
            /\ CleanupStep(k, "memory", Cardinality(PgExpired),
                           Cardinality(RowIds(pgRows) \ RowIds(pgRows')))
       ELSE /\ CleanupStep(k, "memory", 0, 0)
            /\ UNCHANGED pgRows
    /\ UNCHANGED <<sqliteRows, memoryStore>>

\* the loop over memoryStore of invocation k, which has no await, and the
\* return of deletedCount
cleanupMemory(k) ==
    /\ cleanups.pc[k] = "memory"
    /\ memoryStore' = Without(memoryStore, MemoryExpiredIds)
    /\ CleanupStep(k, "done", Cardinality(MemoryExpiredIds),
                   Cardinality(RowIds(memoryStore) \ RowIds(memoryStore')))
    /\ UNCHANGED <<sqliteRows, pgRows>>

\* one await of one of the two invocations
CleanupAwait ==
    /\ \E k \in Invocations :
          cleanupBegin(k) \/ cleanupSqlite(k) \/ cleanupPg(k) \/ cleanupMemory(k)
    /\ UNCHANGED <<response, batch, hung, rendering, generating, service, master, redis, scanLogs,
                   sqliteUp, pgUp, redisUp, now, nextId, envExpiryHours, production,
                   pendingIncrements, retrieved, issued, call>>

\* two cleanupExpired invocations interleave while records are generated and
\* time passes
NextCleanup ==
    \/ Generate
    \/ Tick
    \/ CleanupAwait

SpecCleanup == Init /\ [][NextCleanup]_vars

\* ---------------------------------------------- generateQR, await by await

\* generateQR(data, options) up to its first insert: the id, the image, the
\* expiry read from process.env and expiresAt counted from Date.now(), and the
\* record built from them; QRCode.toBuffer throwing ends the call
generateQRCompute(data, userId, rendered) ==
    /\ generating = NoRecord
    /\ nextId <= MaxIds
    /\ IF rendered
       THEN /\ generating' =
                 [pc |-> "insert", userId |-> userId,
                  expiryHours |-> ExpiryHours(envExpiryHours),
                  qrRecord |-> InitialRecord(nextId, data,
                                             now + ExpiryHours(envExpiryHours), now)]
            /\ nextId' = nextId + 1
       ELSE UNCHANGED <<generating, nextId>>
    /\ UNCHANGED <<sqliteRows, pgRows, memoryStore, redis, scanLogs, sqliteUp, pgUp,
                   redisUp, now, envExpiryHours, production, pendingIncrements,
                   retrieved, call, response, batch, hung, rendering, cleanups,
                   service, master, issued>>

\* the inserts have been awaited: the record is in the first tier that took it,
\* with the created_at of that moment; in production a record that went to
\* the memory store ends the call with an exception
generateQRStore ==
    /\ generating # NoRecord
    /\ generating.pc = "insert"
    /\ LET rec == generating.qrRecord
           tier == InsertTierOf(rec.data)
           row == IF tier = "memory" THEN rec
                  ELSE InsertedRow(rec.id, rec.data, rec.expires_at,
                                   generating.userId, now)
       IN  /\ sqliteRows' = IF tier = "sqlite"
                            THEN [sqliteRows EXCEPT ![rec.id] = row] ELSE sqliteRows
           /\ pgRows' = IF tier = "pg"
                        THEN [pgRows EXCEPT ![rec.id] = row] ELSE pgRows
           /\ memoryStore' = IF tier = "memory"
                             THEN [memoryStore EXCEPT ![rec.id] = row]
                             ELSE memoryStore
           /\ generating' = IF tier = "memory" /\ production THEN NoRecord
                            ELSE [generating EXCEPT !.pc = "cache", !.qrRecord = row]
    /\ UNCHANGED <<redis, scanLogs, sqliteUp, pgUp, redisUp, now, nextId,
                   envExpiryHours, production, pendingIncrements, retrieved, call,
                   response, batch, hung, rendering, cleanups, service, master, issued>>

\* setCache(cacheKey, qrRecord, expiryHours * 3600) has been awaited and the
\* record is returned
generateQRCache ==
    /\ generating # NoRecord
    /\ generating.pc = "cache"
    /\ LET rec == generating.qrRecord
       IN  /\ redis' = setCache(redis, rec.id, rec, generating.expiryHours)
           /\ issued' = [issued EXCEPT ![rec.id] =
                           [view |-> PublicView(rec), owner |-> generating.userId,
                            deleted |-> FALSE]]
    /\ generating' = NoRecord
    /\ UNCHANGED <<sqliteRows, pgRows, memoryStore, scanLogs, sqliteUp, pgUp,
                   redisUp, now, nextId, envExpiryHours, production,
                   pendingIncrements, retrieved, call, response, batch, hung,
                   rendering, cleanups, service, master>>

\* a generateQR call starts
GenerateCompute ==
    /\ now <= MaxGenerateTime
    /\ \E req \in Requests, rendered \in BOOLEAN :
           generateQRCompute(req.data, req.userId, rendered)

\* one generateQR call at a time advances from await to await while time
\* passes, records are retrieved and expired records are cleaned up
NextSlowInsert ==
    \/ GenerateCompute
    \/ generateQRStore
    \/ generateQRCache
    \/ Retrieve
    \/ cleanupExpired
    \/ Tick

SpecSlowInsert == Init /\ [][NextSlowInsert]_vars

\* ------------------------------------------------------- CleanupService

\* the variables the cleanup service and cleanupExpired leave alone
serviceFrame ==
    <<response, batch, hung, rendering, generating, redis, scanLogs, sqliteUp,
      pgUp, redisUp, now, nextId, envExpiryHours, production, pendingIncrements,
      retrieved, issued, call, master>>

\* a call that found isRunning set: it changes nothing but what it reports
Refused(report) ==
    /\ service' = [service EXCEPT !.last = report]
    /\ UNCHANGED <<cleanups, sqliteRows, pgRows, memoryStore>>

\* a call that found isRunning clear sets it and calls cleanupExpired(), which
\* runs up to its first await
Started(k) ==
    /\ service' = [isRunning |-> TRUE, last |-> "started"]
    /\ cleanupBegin(k)

\* the callback of cron.schedule('0 * * * *', ...): skipped while a run is in
\* progress
cronCallback ==
    /\ IF service.isRunning THEN Refused("skipped") ELSE Started(1)
    /\ UNCHANGED serviceFrame

\* runOnce(): throws 'Cleanup already running' while a run is in progress
runOnce ==
    /\ IF service.isRunning THEN Refused("Cleanup already running") ELSE Started(2)
    /\ UNCHANGED serviceFrame

\* the SQLite DELETE of the run in progress calls back
ServiceSqlite ==
    /\ "sqlite" \notin hung
    /\ \E k \in Invocations : cleanupSqlite(k)
    /\ UNCHANGED service
    /\ UNCHANGED serviceFrame

\* the PostgreSQL DELETE of the run in progress calls back
ServicePg ==
    /\ "pg" \notin hung
    /\ \E k \in Invocations : cleanupPg(k)
    /\ UNCHANGED service
    /\ UNCHANGED serviceFrame

\* cleanupExpired runs its loop over memoryStore and returns, and the finally
\* block of the caller clears isRunning, with no await in between
ServiceFinally ==
    /\ \E k \in Invocations :
          /\ cleanups.pc[k] = "memory"
          /\ memoryStore' = Without(memoryStore, MemoryExpiredIds)
          /\ CleanupStep(k, "idle", Cardinality(MemoryExpiredIds),
                         Cardinality(RowIds(memoryStore) \ RowIds(memoryStore')))
    /\ service' = [isRunning |-> FALSE, last |-> "ended"]
    /\ UNCHANGED <<sqliteRows, pgRows>>
    /\ UNCHANGED serviceFrame

\* the scheduler fires and runOnce is called at any time while records are
\* generated, time passes and a database may stop calling back
NextService ==
    \/ cronCallback
    \/ runOnce
    \/ ServiceSqlite
    \/ ServicePg
    \/ ServiceFinally
    \/ GenerateBeforeHang
    \/ Tick
    \/ Hang

SpecService ==
    /\ Init
    /\ [][NextService]_vars
    /\ WF_vars(ServiceSqlite)
    /\ WF_vars(ServicePg)
    /\ WF_vars(ServiceFinally)

\* ------------------------------------------------------- cluster master

\* the variables of the workers' service, which the master does not touch
masterFrame ==
    <<sqliteRows, pgRows, memoryStore, redis, scanLogs, sqliteUp, pgUp, redisUp,
      now, nextId, envExpiryHours, production, pendingIncrements, retrieved,
      call, response, batch, hung, rendering, cleanups, generating, service,
      issued>>

\* a worker process ends on its own
WorkerExits ==
    /\ master.live > 0
    /\ master' = [master EXCEPT !.live = @ - 1, !.exits = @ + 1]
    /\ UNCHANGED masterFrame

\* a worker the master has signalled ends
KilledWorkerExits ==
    /\ master.killed > 0
    /\ master' = [master EXCEPT !.killed = @ - 1, !.exits = @ + 1]
    /\ UNCHANGED masterFrame

\* cluster.on('exit', ...): the master forks a new worker for the one that
\* ended
onExit ==
    /\ master.exits > 0
    /\ master.forks < MaxForks
    /\ master' = [master EXCEPT !.exits = @ - 1, !.live = @ + 1, !.forks = @ + 1]
    /\ UNCHANGED masterFrame

\* process.on('SIGTERM', ...): the master signals every worker of
\* cluster.workers
onSigterm ==
    /\ master' = [master EXCEPT !.sigterm = TRUE, !.live = 0,
                                !.killed = @ + master.live]
    /\ UNCHANGED masterFrame

NextCluster ==
    \/ WorkerExits
    \/ KilledWorkerExits
    \/ onExit
    \/ onSigterm

\* a signalled worker ends and the master handles every exit event
SpecCluster ==
    /\ Init
    /\ [][NextCluster]_vars
    /\ WF_vars(KilledWorkerExits)
    /\ WF_vars(onExit)

\* ------------------------------------------------------ POST /batch

\* Joi.array().items(...).min(1).max(10)
MaxBatchItems == 10

\* a batch of n items with the same payload
BatchOf(n) == [k \in 1..n |-> [data |-> "p1", userId |-> Null]]

\* the bodies of POST /batch: the items arrays of 0, 1, 2, 10 and 11 items,
\* and one whose second item has empty data
BatchBodies ==
    {BatchOf(n) : n \in {0, 1, 2, MaxBatchItems, MaxBatchItems + 1}}
    \cup {<<[data |-> "p2", userId |-> "u1"], [data |-> "", userId |-> Null]>>}

\* batchSchema without the upper limit on the number of items
ValidBatchNoMax(items) ==
    /\ Len(items) >= 1
    /\ \A k \in 1..Len(items) : ValidData(items[k].data)

\* batchSchema.validate(req.body) reports no error
ValidBatch(items) ==
    /\ Len(items) >= 1
    /\ Len(items) <= MaxBatchItems
    /\ \A k \in 1..Len(items) : ValidData(items[k].data)

\* results.filter(Boolean): the entries that were set, in index order
FilterResults(results) == SelectSeq(results, LAMBDA r : r # NoRecord)

\* errors.filter(Boolean): the messages that were set and are not empty
FilterErrors(errors) == SelectSeq(errors, LAMBDA e : e # "")

\* router.post('/batch') up to items.map: validation, and the empty results
\* and errors arrays
PostBatchBegin(items) ==
    /\ batch = NoRecord
    /\ IF ~ValidBatch(items)
       THEN /\ response' = [route |-> "POST /batch", status |-> 400, error |-> "Validation failed"]
            /\ UNCHANGED serviceVars
       ELSE /\ batch' = [items |-> items,
                         results |-> [k \in 1..Len(items) |-> NoRecord],
                         errors |-> [k \in 1..Len(items) |-> ""],
                         pending |-> 1..Len(items)]
            /\ UNCHANGED <<response, hung, rendering, cleanups, generating, service, master, sqliteRows, pgRows, memoryStore, redis, scanLogs,
                           sqliteUp, pgUp, redisUp, now, nextId, envExpiryHours,
                           production, pendingIncrements, retrieved, call, issued>>

\* the callback of items.map for one item: generateQR inside try/catch. The
\* callbacks start in index order and each works on the id it draws, so the
\* calls are taken in index order
PostBatchItem(index, rendered) ==
    /\ batch # NoRecord
    /\ index \in batch.pending
    /\ \A k \in batch.pending : index <= k
    /\ generateQR(batch.items[index].data, batch.items[index].userId, 0, rendered)
    /\ batch' = [batch EXCEPT
                    !.pending = @ \ {index},
                    !.results[index] = IF generateQRThrows(rendered)
                                       THEN @ ELSE issued'[nextId].view,
                    !.errors[index] = IF generateQRThrows(rendered)
                                      THEN "Failed to generate QR code" ELSE @]
    /\ UNCHANGED <<response, hung, rendering, cleanups, generating, service, master>>

\* router.post('/batch') after Promise.all: the 201 response
PostBatchEnd ==
    /\ batch # NoRecord
    /\ batch.pending = {}
    /\ response' = [route |-> "POST /batch", status |-> 201,
                    data |-> [results |-> FilterResults(batch.results),
                              errors |-> FilterErrors(batch.errors),
                              totalRequested |-> Len(batch.items),
                              totalGenerated |-> Len(FilterResults(batch.results))]]
    /\ batch' = NoRecord
    /\ UNCHANGED <<hung, rendering, cleanups, generating, service, master, sqliteRows, pgRows, memoryStore, redis, scanLogs, sqliteUp, pgUp,
                   redisUp, now, nextId, envExpiryHours, production,
                   pendingIncrements, retrieved, call, issued>>

BatchBegin == \E items \in BatchBodies : PostBatchBegin(items)

BatchItem ==
    \E index \in 1..MaxBatchItems, rendered \in BOOLEAN : PostBatchItem(index, rendered)

\* one POST /batch request at a time, the availability of SQLite, PostgreSQL
\* and Redis staying what it was at start
NextBatch ==
    \/ BatchBegin
    \/ BatchItem
    \/ PostBatchEnd

SpecBatch == Init /\ [][NextBatch]_vars

\* ---------------------------------------------------------------- claims

\* the visibility rule of the data model: active, and not yet expired
Visible(rec) ==
    /\ rec # NoRecord
    /\ rec.is_active # False
    /\ rec.expires_at = NullTime \/ rec.expires_at > now

\* the same rule with the instant now = expires_at counted as not yet expired
VisibleOrExpiring(rec) ==
    /\ rec # NoRecord
    /\ rec.is_active # False
    /\ rec.expires_at = NullTime \/ rec.expires_at >= now

\* some store tier holds a visible record with this id
HeldVisible(id) ==
    \/ VisibleOrExpiring(sqliteRows[id])
    \/ VisibleOrExpiring(pgRows[id])
    \/ VisibleOrExpiring(memoryStore[id])

\* C1: in every reachable state getQR(id) returns a record only if some store
\* tier holds a record with that id that is active and whose expires_at is
\* unset or later than now, the cache path included.  (Stated with the
\* instant now = expires_at allowed, which asks less than the claim.)
C1_RetrieveOnlyVisible ==
    \A i \in Ids : getQRResult(i) # NotFound => HeldVisible(i)

\* C2: a generateQR that succeeds returns a fresh id, the payload it was given,
\* its rendered image and access count 0; and while the availability of the
\* tiers and the cache stays the same, a getQR of that id before expires_at
\* with no successful deleteQR in between returns that id, payload and image.
C2_GenerateThenRetrieve ==
    /\ [][\A req \in Requests :
            (generateQR(req.data, req.userId, 0, TRUE) /\ issued'[nextId] # NoRecord)
            => /\ sqliteRows[nextId] = NoRecord /\ pgRows[nextId] = NoRecord
               /\ memoryStore[nextId] = NoRecord /\ redis[nextId] = NoRecord
               /\ issued[nextId] = NoRecord
               /\ issued'[nextId].view.id = nextId
               /\ issued'[nextId].view.data = req.data
               /\ issued'[nextId].view.qrImageUrl = Render(req.data)
               /\ issued'[nextId].view.accessCount = 0]_vars
    /\ [](\A i \in Ids :
            (/\ issued[i] # NoRecord
             /\ ~issued[i].deleted
             /\ now < issued[i].view.expiresAt)
            => /\ getQRResult(i) # NotFound
               /\ getQRResult(i).id = issued[i].view.id
               /\ getQRResult(i).data = issued[i].view.data
               /\ getQRResult(i).qrImageUrl = issued[i].view.qrImageUrl)

\* C2 witness: a generated record that was not deleted has been retrieved
\* before its expires_at
C2_Witness ==
    \E i \in Ids :
        /\ issued[i] # NoRecord /\ ~issued[i].deleted /\ retrieved[i] > 0
        /\ now < issued[i].view.expiresAt

\* C3: with SQLite unavailable and PostgreSQL available generateQR succeeds by
\* inserting into PostgreSQL, and every later getQR of a record PostgreSQL
\* holds visible succeeds while PostgreSQL is reachable, whatever SQLite and
\* the cache do.
C3_SecondaryFallback ==
    /\ [][\A req \in Requests :
            (generateQR(req.data, req.userId, 0, TRUE) /\ ~sqliteUp /\ pgUp)
            => pgRows'[nextId] # NoRecord /\ issued'[nextId] # NoRecord]_vars
    /\ [](\A i \in Ids : (pgUp /\ Visible(pgRows[i])) => getQRResult(i) # NotFound)

\* C4: once a deleteQR(id) has returned true, no getQR(id) that starts
\* afterwards gets the record, whatever getQR calls were in flight during the
\* deleteQR and whether or not the cache eviction succeeded.
C4_NoRetrieveAfterDelete ==
    (call # NoRecord /\ call.afterDelete) => call.qrRecord = NoRecord

\* C5: after a deleteQR(id) that returned true, a second deleteQR(id) fails
\* with not found and changes no state.
C5_SecondDeleteNotFound ==
    /\ [](\A i \in Ids, u \in UserIds :
            (issued[i] # NoRecord /\ issued[i].deleted) => ~deleteQRResult(i, u))
    /\ [][\A i \in Ids, u \in UserIds :
            (deleteQR(i, u) /\ issued[i] # NoRecord /\ issued[i].deleted)
            => UNCHANGED <<sqliteRows, pgRows, memoryStore, redis>>]_vars

\* C6: deleteQR(id, userId) with a userId that is not the owner the record was
\* generated with fails with not found and leaves the record as it is, in
\* whichever tier the record is held.
C6_OwnerScopedDelete ==
    /\ [](\A i \in Ids, u \in UserIds :
            (/\ issued[i] # NoRecord /\ issued[i].owner # Null
             /\ u # Null /\ u # issued[i].owner)
            => ~deleteQRResult(i, u))
    /\ [][\A i \in Ids, u \in UserIds :
            (/\ deleteQR(i, u)
             /\ issued[i] # NoRecord /\ issued[i].owner # Null
             /\ u # Null /\ u # issued[i].owner)
            => /\ sqliteRows'[i] = sqliteRows[i]
               /\ pgRows'[i] = pgRows[i]
               /\ memoryStore'[i] = memoryStore[i]]_vars

\* the row is one deleteQR(id, userId) is to retire: present, active, owned
Retirable(rows, id, userId) ==
    UpdateMatches(rows, id, userId) /\ rows[id].is_active # False

\* C7: deleteQR tries all three tiers whatever the earlier ones answered: it
\* returns true when any reachable tier holds a record to retire, and that
\* record is then retired, also when SQLite answers that it has no such row
\* while PostgreSQL holds the record.
C7_DeleteTriesAllTiers ==
    /\ [](\A i \in Ids, u \in UserIds :
            (\/ sqliteUp /\ Retirable(sqliteRows, i, u)
             \/ pgUp /\ Retirable(pgRows, i, u)
             \/ memoryStore[i] # NoRecord)
            => deleteQRResult(i, u))
    /\ [][\A i \in Ids, u \in UserIds :
            deleteQR(i, u)
            => /\ (sqliteUp /\ Retirable(sqliteRows, i, u)) => ~Visible(sqliteRows'[i])
               /\ (pgUp /\ Retirable(pgRows, i, u)) => ~Visible(pgRows'[i])
               /\ memoryStore[i] # NoRecord => ~Visible(memoryStore'[i])]_vars

\* the record of table rows with this id disappears in this step
Removed(rows, rowsAfter, id) == rows[id] # NoRecord /\ rowsAfter[id] = NoRecord

\* C8: a record leaves a tier only in a cleanupExpired step and only when its
\* expires_at has passed; deleteQR and getQR remove nothing.
C8_OnlyCleanupRemoves ==
    [][\A i \in Ids :
          /\ Removed(sqliteRows, sqliteRows', i)
             => cleanupExpired /\ sqliteRows[i].expires_at < now
          /\ Removed(pgRows, pgRows', i)
             => cleanupExpired /\ pgRows[i].expires_at < now
          /\ Removed(memoryStore, memoryStore', i)
             => cleanupExpired /\ memoryStore[i].expires_at < now]_vars

\* the records of a table whose expires_at is earlier than now
Expired(rows) ==
    {i \in Ids : /\ rows[i] # NoRecord
                 /\ rows[i].expires_at # NullTime
                 /\ rows[i].expires_at < now}

\* the ids a table holds
Held(rows) == {i \in Ids : rows[i] # NoRecord}

\* C9: from each tier it purges, cleanupExpired removes exactly the records
\* whose expires_at is earlier than now, active or not, and the count it
\* returns is the number of records removed.
C9_CleanupExact ==
    /\ [](/\ sqliteUp => Purged.sqlite = Expired(sqliteRows)
          /\ (~sqliteUp /\ pgUp) => Purged.pg = Expired(pgRows)
          /\ Purged.memory = Expired(memoryStore)
          /\ deletedCount = Cardinality(Purged.sqlite) + Cardinality(Purged.pg)
                            + Cardinality(Purged.memory))
    /\ [][cleanupExpired
          => /\ Held(sqliteRows') = Held(sqliteRows) \ Purged.sqlite
             /\ Held(pgRows') = Held(pgRows) \ Purged.pg
             /\ Held(memoryStore') = Held(memoryStore) \ Purged.memory]_vars

\* C10: cleanupExpired purges every reachable tier, not only the first one
\* that answers: afterwards no reachable tier holds a record whose expires_at
\* is earlier than now, and the count returned is the sum over all tiers.
\* (For SQLite stated for the rows its own DELETE selects, which asks less
\* than the claim.)
C10_CleanupEveryTier ==
    /\ [](/\ sqliteUp => SqliteExpired \subseteq Purged.sqlite
          /\ pgUp => Expired(pgRows) \subseteq Purged.pg
          /\ Expired(memoryStore) \subseteq Purged.memory
          /\ deletedCount = Cardinality(Purged.sqlite) + Cardinality(Purged.pg)
                            + Cardinality(Purged.memory))
    /\ [][cleanupExpired
          => /\ Held(sqliteRows') = Held(sqliteRows) \ Purged.sqlite
             /\ Held(pgRows') = Held(pgRows) \ Purged.pg
             /\ Held(memoryStore') = Held(memoryStore) \ Purged.memory]_vars

\* the six fields of a statistics object
StatsFields ==
    {"total_codes", "active_codes", "total_accesses", "total_scans",
     "unique_scanners", "scanned_codes"}

\* C11: getStats never raises: for every availability of SQLite, PostgreSQL
\* and the scan log it returns an object with the six fields, each a count;
\* with SQLite and PostgreSQL unavailable the counts are those of the memory
\* store (the records held, the unexpired ones, the sum of their access
\* counts, no scans), and all are zero when the memory store is empty.
C11_StatsNeverRaise ==
    \A u \in UserIds, scanLogAnswers \in BOOLEAN :
        LET stats == getStats(u, scanLogAnswers)
            held == {i \in Held(memoryStore) : u # Null => memoryStore[i].user_id = u}
        IN  /\ stats # Thrown
            /\ DOMAIN stats = StatsFields
            /\ \A f \in StatsFields : stats[f] \in Nat
            /\ (~sqliteUp /\ ~pgUp)
               => /\ stats.total_codes = Cardinality(held)
                  /\ stats.active_codes =
                        Cardinality({i \in held : memoryStore[i].expires_at > now})
                  /\ stats.total_accesses = TotalAccesses(memoryStore, held)
                  /\ stats.total_scans = 0
                  /\ stats.unique_scanners = 0
                  /\ stats.scanned_codes = 0
                  /\ Held(memoryStore) = {} => stats = ZeroStats

\* C11 witness: SQLite and PostgreSQL are unavailable and getStats counts a
\* record of the memory store that has been retrieved
C11_Witness ==
    /\ ~sqliteUp
    /\ ~pgUp
    /\ getStats(Null, TRUE).total_codes > 0
    /\ getStats(Null, TRUE).total_accesses > 0

\* C12: a generateQR with SQLite and PostgreSQL both unavailable stores the
\* record in the memory store and nowhere else; in production the call then
\* throws and returns no record; otherwise it returns the record, and getQR
\* of its id finds it, as it does for as long as the memory store holds it
\* unexpired.
C12_DegradedGenerate ==
    /\ [][\A req \in Requests, i \in Ids :
            (generateQR(req.data, req.userId, 0, TRUE) /\ i = nextId
             /\ ~sqliteUp /\ ~pgUp)
            => /\ memoryStore'[i] # NoRecord
               /\ memoryStore'[i].id = i
               /\ memoryStore'[i].data = req.data
               /\ sqliteRows' = sqliteRows
               /\ pgRows' = pgRows
               /\ production => issued'[i] = NoRecord /\ redis' = redis
               /\ ~production
                  => /\ issued'[i] # NoRecord
                     /\ issued'[i].view = PublicView(memoryStore'[i])
                     /\ getQRResult(i)' = PublicView(memoryStore'[i])]_vars
    /\ [](\A i \in Ids :
            (/\ ~production
             /\ memoryStore[i] # NoRecord
             /\ now < memoryStore[i].expires_at)
            => /\ getQRResult(i) # NotFound
               /\ getQRResult(i).id = i
               /\ getQRResult(i).data = memoryStore[i].data
               /\ getQRResult(i).qrImageUrl = memoryStore[i].qr_image_url)

\* C12 witness: in production a record sits in the memory store although the
\* generateQR that put it there returned nothing
C12_Witness ==
    \E i \in Ids : production /\ memoryStore[i] # NoRecord /\ issued[i] = NoRecord

\* C13: a POST /generate whose rendering fails ends with an error, returns no
\* record and persists nothing: SQLite, PostgreSQL, the memory store and the
\* cache are as before.
C13_RenderFailurePersistsNothing ==
    [][\A body \in GenerateBodies :
          (ValidGenerate(body) /\ PostGenerate(body, FALSE))
          => /\ response'.status = 500
             /\ issued' = issued
             /\ sqliteRows' = sqliteRows
             /\ pgRows' = pgRows
             /\ memoryStore' = memoryStore
             /\ redis' = redis]_vars

\* C13 witness: the first request was a POST /generate whose rendering failed,
\* and no tier and no cache key holds anything
C13_Witness ==
    /\ response # NoRecord
    /\ response.status = 500
    /\ Held(sqliteRows) = {} /\ Held(pgRows) = {} /\ Held(memoryStore) = {}
    /\ Held(redis) = {}

\* C14: whatever is unavailable among the cache, SQLite and PostgreSQL, getQR
\* returns a record or throws not found, and deleteQR returns true or throws
\* not found; no storage error leaves either, so GET /:id and DELETE /:id
\* with a UUID answer 200 or 404, never 500.
C14_NoStorageErrorSurfaces ==
    /\ \A i \in Ids, u \in UserIds :
            /\ getQRResult(i) # Thrown
            /\ getQRResult(i) = NotFound \/ getQRResult(i).id = i
            /\ deleteQRError(i, u) \in {NoRecord, DeleteNotFound}
    /\ (response # NoRecord /\ response.route \in {"GET /:id", "DELETE /:id"})
       => response.status \in {200, 400, 404}

\* C14 witness: with the cache, SQLite and PostgreSQL all unavailable a GET or
\* DELETE has been answered 404
C14_Witness ==
    /\ ~sqliteUp /\ ~pgUp /\ ~redisUp
    /\ response # NoRecord
    /\ response.status = 404

\* C15: the incrementAccessCount(id) that a successful getQR(id) started adds
\* exactly one to access_count of the record on every reachable tier that
\* holds it, whatever the other tiers answer.  (The safety part of the claim:
\* what the increment does when it runs.)
C15_IncrementOnHoldingTier ==
    [][\A i \in Ids :
          incrementAccessCount(i)
          => /\ (sqliteUp /\ sqliteRows[i] # NoRecord)
                => sqliteRows'[i].access_count = sqliteRows[i].access_count + 1
             /\ (pgUp /\ pgRows[i] # NoRecord /\ sqliteRows[i] = NoRecord)
                => pgRows'[i].access_count = pgRows[i].access_count + 1
             /\ (/\ memoryStore[i] # NoRecord
                 /\ sqliteRows[i] = NoRecord /\ pgRows[i] = NoRecord)
                => memoryStore'[i].access_count = memoryStore[i].access_count + 1]_vars

\* a getQR(id) step that missed the reachable cache and found the record in a
\* store tier
MissThenFound(i) ==
    getQR(i) /\ redisUp /\ getCache(i) = NoRecord /\ FromTiers(i) # NoRecord

\* whatever the cache holds for an id is what getQR returns for it, with the
\* payload and image of the record generated under that id
ServedFromCache ==
    \A i \in Ids :
        getCache(i) # NoRecord
        => /\ getQRResult(i) = PublicView(getCache(i))
           /\ issued[i] # NoRecord
              => /\ getQRResult(i).data = issued[i].view.data
                 /\ getQRResult(i).qrImageUrl = issued[i].view.qrImageUrl

C17_RejectedRequestChangesNothing ==
    [][/\ \A body \in GenerateBodies, rendered \in BOOLEAN :
            PostGenerate(body, rendered)
            => IF Length(body.data) = 0 \/ Length(body.data) > 2048
               THEN response'.status = 400 /\ UNCHANGED serviceVars
               ELSE response'.status # 400
       /\ GetQR(MalformedId)
          => response'.status = 400 /\ UNCHANGED serviceVars
       /\ \A userId \in UserIds :
            DeleteQR(MalformedId, userId)
            => response'.status = 400 /\ UNCHANGED serviceVars]_vars

\* C17 witness: a record with data of 2048 characters was generated, and the
\* last request was rejected by validation
C17_Witness ==
    /\ \E i \in Ids : issued[i] # NoRecord /\ Length(issued[i].view.data) = 2048
    /\ response.status = 400

\* the 201 response of POST /batch adds up: totalRequested between 1 and 10,
\* totalGenerated the number of results, results and errors together
\* totalRequested, and every result the record generated under its id
BatchResponseAddsUp ==
    (response # NoRecord /\ response.route = "POST /batch" /\ response.status = 201)
    => /\ response.data.totalRequested \in 1..10
       /\ response.data.totalGenerated = Len(response.data.results)
       /\ Len(response.data.results) + Len(response.data.errors)
             = response.data.totalRequested
       /\ \A k \in 1..Len(response.data.results) :
             issued[response.data.results[k].id].view = response.data.results[k]

\* C18: POST /batch is accepted only with 1 to 10 items: with 0 or more than
\* 10 items it ends with status 400 and generates nothing; an accepted batch
\* attempts every item, an item whose generateQR does not throw yields its
\* record whatever happened to the other items, and in the response
\* totalRequested is the number of items, totalGenerated the number of
\* results, and results plus errors number totalRequested.
C18_BatchCounts ==
    /\ [][/\ \A items \in BatchBodies :
               (PostBatchBegin(items) /\ (Len(items) = 0 \/ Len(items) > 10))
               => /\ response'.status = 400
                  /\ UNCHANGED serviceVars
          /\ \A index \in 1..10, rendered \in BOOLEAN, i \in Ids :
               (PostBatchItem(index, rendered) /\ ~generateQRThrows(rendered)
                  /\ i = nextId)
               => /\ batch'.results[index] = issued'[i].view
                  /\ batch'.results[index].data = batch.items[index].data
                  /\ Lookup(i)' # NoRecord
          /\ PostBatchEnd
             => /\ response'.data.totalRequested = Len(batch.items)
                /\ Len(response'.data.results)
                     = Cardinality({k \in 1..Len(batch.items) :
                                      batch.results[k] # NoRecord})
                /\ Len(response'.data.errors)
                     = Cardinality({k \in 1..Len(batch.items) :
                                      batch.errors[k] # ""})]_vars
    /\ [](batch # NoRecord => Len(batch.items) \in 1..10)
    /\ []BatchResponseAddsUp

\* C18 witness: a batch of 10 items was answered with results and with errors
C18_Witness ==
    /\ response # NoRecord
    /\ response.route = "POST /batch"
    /\ response.status = 201
    /\ response.data.totalRequested = 10
    /\ Len(response.data.results) >= 1
    /\ Len(response.data.errors) >= 1

\* C19: a POST /generate without expiryHours that succeeds yields
\* expiresAt = creation time + the configured default time to live, whatever
\* overrides earlier requests carried.
C19_DefaultExpiryUnaffected ==
    [][\A body \in GenerateBodies, i \in Ids :
         (PostGenerate(body, TRUE) /\ ValidGenerate(body) /\ body.expiryHours = 0
            /\ ~generateQRThrows(TRUE) /\ i = nextId)
         => /\ issued'[i].view.createdAt = now
            /\ issued'[i].view.expiresAt = now + DefaultExpiryHours]_vars

\* the cache is unavailable, or reachable and empty
CacheSilent == ~redisUp \/ \A j \in Ids : redis[j] = NoRecord

\* C20: the cache operations never raise: with Redis unavailable setCache and
\* deleteCache return false and getCache returns null; generateQR, getQR and
\* deleteQR return the same with the cache unavailable as with an empty
\* reachable cache (the results before and after Redis comes or goes with no
\* key stored), and with a silent cache they change the store tiers as the
\* store tiers alone decide.
C20_CacheNeverRaises ==
    /\ [](\A i \in Ids :
            /\ getCache(i) # Thrown
            /\ ~redisUp
               => /\ getCache(i) = NoRecord
                  /\ deleteCacheResult = FALSE
                  /\ \A ttl \in 0..MaxTime : setCacheResult(ttl) = FALSE)
    /\ [][(redisUp' # redisUp /\ redis' = redis /\ \A j \in Ids : redis[j] = NoRecord)
          => /\ \A i \in Ids : getQRResult(i)' = getQRResult(i)
             /\ \A i \in Ids, userId \in UserIds :
                   deleteQRError(i, userId)' = deleteQRError(i, userId)
             /\ \A rendered \in BOOLEAN :
                   generateQRThrows(rendered)' = generateQRThrows(rendered)]_vars
    /\ [][\A i \in Ids :
            (CacheSilent /\ getQR(i))
            => /\ retrieved'[i] > retrieved[i] <=> FromTiers(i) # NoRecord
               /\ scanLogs'[i] > scanLogs[i] <=> (FromTiers(i) # NoRecord /\ sqliteUp)
               /\ pendingIncrements'[i] > pendingIncrements[i] <=> FromTiers(i) # NoRecord
               /\ sqliteRows' = sqliteRows /\ pgRows' = pgRows
               /\ memoryStore'[i] # memoryStore[i]
                    <=> (FromDatabase(i) = NoRecord /\ MemoryExpired(i))]_vars
    /\ [][\A req \in Requests, rendered \in BOOLEAN, i \in Ids :
            (CacheSilent /\ i = nextId /\ generateQR(req.data, req.userId, 0, rendered))
            => /\ issued'[i] # NoRecord <=> ~generateQRThrows(rendered)
               /\ sqliteRows'[i] # NoRecord <=> (rendered /\ sqliteUp)
               /\ pgRows'[i] # NoRecord <=> (rendered /\ ~sqliteUp /\ pgUp)
               /\ memoryStore'[i] # NoRecord <=> (rendered /\ ~sqliteUp /\ ~pgUp)]_vars
    /\ [][\A i \in Ids, userId \in UserIds :
            (CacheSilent /\ deleteQR(i, userId))
            => /\ sqliteRows' = IF sqliteUp THEN Retire(sqliteRows, i, userId)
                                ELSE sqliteRows
               /\ pgRows' = IF ~sqliteUp /\ pgUp THEN Retire(pgRows, i, userId)
                            ELSE pgRows
               /\ memoryStore'[i] = NoRecord]_vars

\* C20 witness: with Redis unavailable and no key stored, a record was
\* generated and retrieved and another was deleted
C20_Witness ==
    /\ ~redisUp
    /\ \A j \in Ids : redis[j] = NoRecord
    /\ \E i \in Ids : issued[i] # NoRecord /\ retrieved[i] > 0
    /\ \E i \in Ids : issued[i] # NoRecord /\ issued[i].deleted

\* C21: getQR eventually completes even if a query to one database never
\* returns: every call in flight ends, with a record or with an error.
C21_CallsComplete == [](call # NoRecord => <>(call = NoRecord))

\* a call in flight ends unless a database has stopped calling back
CallsCompleteWithoutHang == [](call # NoRecord => <>(call = NoRecord \/ hung # {}))

\* C22: the record of a POST /generate request that carries expiryHours gets
\* expiresAt = its creation time + its own expiryHours, whatever other
\* requests are in flight.
C22_OwnOverride ==
    [][\A body \in OverrideBodies, i \in Ids :
         (PostGenerateEnd(body, TRUE) /\ body.expiryHours # 0
            /\ ~generateQRThrows(TRUE) /\ i = nextId)
         => issued'[i].view.expiresAt = issued'[i].view.createdAt + body.expiryHours]_vars

\* a record that leaves a tier had an expires_at, and one before now
OnlyExpiredLeave(rows, rowsAfter) ==
    \A i \in RowIds(rows) \ RowIds(rowsAfter) :
        rows[i].expires_at # NullTime /\ rows[i].expires_at < now

\* C23: however two cleanupExpired invocations interleave, the counts they
\* have reported add up to the number of records removed (each removed record
\* is counted by exactly one invocation), and no record with unset or future
\* expires_at is removed.
C23_CleanupCountsOnce ==
    /\ [](cleanups.deletedCount[1] + cleanups.deletedCount[2] = cleanups.removed)
    /\ [][/\ OnlyExpiredLeave(sqliteRows, sqliteRows')
          /\ OnlyExpiredLeave(pgRows, pgRows')
          /\ OnlyExpiredLeave(memoryStore, memoryStore')]_vars

\* C23 witness: one invocation has removed and counted a record and returned
\* while the other, past its database statement, has counted none
C23_Witness ==
    /\ cleanups.pc = <<"done", "memory">>
    /\ cleanups.deletedCount[1] > 0
    /\ cleanups.deletedCount[2] = 0
    /\ cleanups.removed > 0

\* the access_count of the record a tier holds for an id, 0 when it holds none
AccessCount(rows, i) == IF rows[i] # NoRecord THEN rows[i].access_count ELSE 0

C25_ReturnsBeforeIncrement ==
    /\ [][\A i \in Ids :
            (getQR(i) /\ getQRResult(i) # NotFound)
            => /\ pendingIncrements'[i] = pendingIncrements[i] + 1
               /\ AccessCount(sqliteRows', i) = AccessCount(sqliteRows, i)
               /\ AccessCount(pgRows', i) = AccessCount(pgRows, i)
               /\ AccessCount(memoryStore', i) = AccessCount(memoryStore, i)
               /\ getCache(i) = NoRecord
                  => getQRResult(i).accessCount = FromTiers(i)'.access_count]_vars
    /\ [][\A i \in Ids :
            incrementAccessCount(i)
            => /\ retrieved' = retrieved
               /\ pendingIncrements'[i] = pendingIncrements[i] - 1]_vars

\* C25 witness: a getQR returned a record whose increment was then lost on
\* every tier
C25_Witness ==
    \E i \in Ids :
        /\ retrieved[i] = 1
        /\ pendingIncrements[i] = 0
        /\ issued[i] # NoRecord
        /\ ~issued[i].deleted
        /\ AccessCount(sqliteRows, i) + AccessCount(pgRows, i)
             + AccessCount(memoryStore, i) = 0

\* C26: a getQR that returns a record, from the cache or from a store tier,
\* appends exactly one row for its id to the scan log when SQLite answers; a
\* getQR that throws 'not found' appends none; and when the append fails the
\* getQR still returns the record it found.
C26_OneScanPerRetrieve ==
    [][\A i \in Ids :
         getQR(i)
         => IF getQRResult(i) = NotFound
            THEN scanLogs' = scanLogs /\ retrieved' = retrieved
            ELSE /\ scanLogs' = IF sqliteUp THEN [scanLogs EXCEPT ![i] = @ + 1]
                                ELSE scanLogs
                 /\ retrieved'[i] = retrieved[i] + 1
                 /\ getQRResult(i).id = i
                 /\ getQRResult(i).data = Lookup(i).data]_vars

\* C26 witness: one getQR returned a record from the cache and its scan was
\* logged
C26_Witness ==
    \E i \in Ids :
        /\ retrieved[i] = 1
        /\ scanLogs[i] = 1
        /\ getCache(i) # NoRecord

\* a record that is held, active and past its expires_at
ExpiredUnpurged(rec) ==
    /\ rec # NoRecord
    /\ rec.is_active # False
    /\ rec.expires_at # NullTime
    /\ rec.expires_at < now

\* the id is held, and only by records that are expired and not yet purged
HeldExpiredOnly(id) ==
    /\ \E rows \in {sqliteRows, pgRows, memoryStore} : rows[id] # NoRecord
    /\ \A rows \in {sqliteRows, pgRows, memoryStore} :
          rows[id] # NoRecord => ExpiredUnpurged(rows[id])

\* C27: deleteQR(id) of a record that is expired but not yet purged throws
\* 'not found' and changes no state, as deleteQR of an id no tier holds does.
C27_DeleteExpiredNotFound ==
    /\ [](\A i \in Ids, userId \in UserIds :
            HeldExpiredOnly(i) => ~deleteQRResult(i, userId))
    /\ [][\A i \in Ids, userId \in UserIds :
            (deleteQR(i, userId) /\ HeldExpiredOnly(i))
            => UNCHANGED <<sqliteRows, pgRows, memoryStore, redis>>]_vars

\* the memory-store records generateQR was called for with this userId (all
\* of them without a userId)
MemoryOwned(userId) ==
    {i \in Ids : /\ memoryStore[i] # NoRecord
                 /\ userId # Null => issued[i].owner = userId}

\* C28: with SQLite and PostgreSQL both unavailable, getStats(userId) counts
\* exactly the memory-store records created with that userId: total_codes is
\* their number, active_codes the number of those with expires_at unset or
\* later than now, total_accesses the sum of their access counts; without
\* userId all memory-store records count.  (Stated for states in which every
\* memory-store record was returned by its generateQR.)
C28_MemoryStatsByOwner ==
    \A userId \in UserIds :
        (/\ ~sqliteUp
         /\ ~pgUp
         /\ \A i \in Ids : memoryStore[i] # NoRecord => issued[i] # NoRecord)
        => /\ getStats(userId, TRUE).total_codes = Cardinality(MemoryOwned(userId))
           /\ getStats(userId, TRUE).active_codes =
                 Cardinality({i \in MemoryOwned(userId) :
                                \/ memoryStore[i].expires_at = NullTime
                                \/ memoryStore[i].expires_at > now})
           /\ getStats(userId, TRUE).total_accesses =
                 TotalAccesses(memoryStore, MemoryOwned(userId))

\* the three counts of a statistics object
Counts(stats) == <<stats.total_codes, stats.active_codes, stats.total_accesses>>

\* the three scan fields of a statistics object
Scans(stats) == <<stats.total_scans, stats.unique_scanners, stats.scanned_codes>>

\* C29: getStats takes total_codes, active_codes and total_accesses from the
\* first tier that answers in the order SQLite, PostgreSQL, memory store; the
\* three scan fields are those of the scan log when it answers and zero when
\* it does not, which is the case whenever no database answers; a failing
\* scan log query changes nothing about the three counts.
C29_StatsSources ==
    \A u \in UserIds, scanLogAnswers \in BOOLEAN :
        LET stats == getStats(u, scanLogAnswers)
            log == getScanStats(u, TRUE)
        IN  /\ Counts(stats) = IF sqliteUp THEN Counts(SqliteStats(u, TRUE))
                               ELSE IF pgUp THEN Counts(PgStats(u))
                               ELSE Counts(MemoryStats(u))
            /\ Scans(stats) = IF sqliteUp /\ scanLogAnswers
                              THEN <<log.total_scans, log.unique_scanners,
                                     log.scanned_codes>>
                              ELSE <<0, 0, 0>>
            /\ (~sqliteUp /\ ~pgUp) => Scans(stats) = <<0, 0, 0>>
            /\ Counts(stats) = Counts(getStats(u, ~scanLogAnswers))

\* C29 witness: SQLite counts a scanned record, and the same call with the
\* scan log query failing reports the record and no scan
C29_Witness ==
    /\ sqliteUp
    /\ getStats(Null, TRUE).total_codes > 0
    /\ getStats(Null, TRUE).total_scans > 0
    /\ getStats(Null, FALSE).total_codes > 0
    /\ getStats(Null, FALSE).total_scans = 0

\* the records of a tier that are not retired, of the owner when one is given
Countable(rows, userId) ==
    {i \in Ids : /\ rows[i] # NoRecord
                 /\ rows[i].is_active # False
                 /\ userId # Null => rows[i].user_id = userId}

\* a statistics object counts the countable records of a tier as the claim
\* says; a record at the instant now = expires_at may count as active or not
CountsAsClaimed(stats, rows, userId) ==
    LET S == Countable(rows, userId)
    IN  /\ stats.total_codes = Cardinality(S)
        /\ stats.active_codes >=
              Cardinality({i \in S : \/ rows[i].expires_at = NullTime
                                     \/ rows[i].expires_at > now})
        /\ stats.active_codes <=
              Cardinality({i \in S : \/ rows[i].expires_at = NullTime
                                     \/ rows[i].expires_at >= now})
        /\ stats.total_accesses = TotalAccesses(rows, S)

\* C30: in the statistics of any tier total_codes counts the records that
\* are not retired, of the given owner when one is given, active_codes those
\* among them whose expires_at is unset or in the future, total_accesses the
\* sum of their access counts; so active_codes <= total_codes.  (Stated with
\* the instant now = expires_at left open, and for the memory store without
\* an owner: both ask less than the claim.)
C30_StatsCountVisible ==
    \A u \in UserIds :
        /\ sqliteUp => CountsAsClaimed(SqliteStats(u, TRUE), sqliteRows, u)
        /\ pgUp => CountsAsClaimed(PgStats(u), pgRows, u)
        /\ CountsAsClaimed(MemoryStats(Null), memoryStore, Null)
        /\ getStats(u, TRUE).active_codes <= getStats(u, TRUE).total_codes

\* C31: generateQR goes on to a lower tier only when the tier above it is
\* unreachable: the record is written to PostgreSQL only when SQLite is
\* unavailable and to the memory store only when SQLite and PostgreSQL are both
\* unavailable; an insert a reachable tier refuses writes the record nowhere
\* below that tier.
C31_FallbackOnlyWhenUnreachable ==
    [][\A req \in Requests \cup RejectedRequests, i \in Ids :
          (generateQR(req.data, req.userId, 0, TRUE) /\ i = nextId)
          => /\ pgRows'[i] # NoRecord => ~sqliteUp
             /\ memoryStore'[i] # NoRecord => ~sqliteUp /\ ~pgUp]_vars

\* the tiers that hold a record under this id
HoldingTiers(sqlite, pg, memory, i) ==
    {t \in {"sqlite", "pg", "memory"} :
        \/ t = "sqlite" /\ sqlite[i] # NoRecord
        \/ t = "pg" /\ pg[i] # NoRecord
        \/ t = "memory" /\ memory[i] # NoRecord}

\* the first of SQLite, PostgreSQL and the memory store that takes the insert
FirstAccepting(data) ==
    IF sqliteUp THEN "sqlite"
    ELSE IF pgUp /\ data # RejectedPayload THEN "pg"
    ELSE "memory"

\* C32: after a generateQR that returned a record, the new id is held by
\* exactly one tier, the first of SQLite, PostgreSQL and the memory store that
\* accepted the insert; before the call no tier held the id, and every record
\* that existed before the call is unchanged.
C32_HeldByExactlyOneTier ==
    [][\A req \in Requests \cup RejectedRequests, i \in Ids :
          (generateQR(req.data, req.userId, 0, TRUE) /\ i = nextId
             /\ issued'[i] # NoRecord)
          => /\ HoldingTiers(sqliteRows, pgRows, memoryStore, i) = {}
             /\ HoldingTiers(sqliteRows', pgRows', memoryStore', i)
                    = {FirstAccepting(req.data)}
             /\ \A j \in Ids \ {i} :
                    /\ sqliteRows'[j] = sqliteRows[j]
                    /\ pgRows'[j] = pgRows[j]
                    /\ memoryStore'[j] = memoryStore[j]]_vars

\* two calls have returned a record, one stored in PostgreSQL and one in the
\* memory store
C32_Witness ==
    /\ issued[1] # NoRecord /\ issued[2] # NoRecord
    /\ \E i, j \in Ids :
           /\ HoldingTiers(sqliteRows, pgRows, memoryStore, i) = {"pg"}
           /\ HoldingTiers(sqliteRows, pgRows, memoryStore, j) = {"memory"}

\* the fields of a stored record that are fixed when it is created
Created(rec) ==
    [id |-> rec.id, data |-> rec.data, qr_image_url |-> rec.qr_image_url,
     created_at |-> rec.created_at, expires_at |-> rec.expires_at,
     user_id |-> rec.user_id, metadata |-> rec.metadata]

\* every record the tier holds before and after the step keeps these fields
KeepsCreated(rows, rowsAfter) ==
    \A i \in Ids :
        (rows[i] # NoRecord /\ rowsAfter[i] # NoRecord)
        => Created(rowsAfter[i]) = Created(rows[i])

\* every record the tier holds before and after the step keeps this field
Keeps(rows, rowsAfter, field) ==
    \A i \in Ids :
        (rows[i] # NoRecord /\ rowsAfter[i] # NoRecord)
        => rowsAfter[i][field] = rows[i][field]

\* a step keeps the created fields of every record; getQR and the increment
\* leave is_active alone, deleteQR leaves access_count alone
CreatedFieldsKept ==
    /\ KeepsCreated(sqliteRows, sqliteRows')
    /\ KeepsCreated(pgRows, pgRows')
    /\ KeepsCreated(memoryStore, memoryStore')
    /\ (Retrieve \/ IncrementAccess) =>
          (/\ Keeps(sqliteRows, sqliteRows', "is_active")
           /\ Keeps(pgRows, pgRows', "is_active")
           /\ Keeps(memoryStore, memoryStore', "is_active"))
    /\ Delete =>
          (/\ Keeps(sqliteRows, sqliteRows', "access_count")
           /\ Keeps(pgRows, pgRows', "access_count")
           /\ Keeps(memoryStore, memoryStore', "access_count"))

\* C33: a record that stays in a tier keeps its id, data, qr_image_url,
\* created_at, expires_at, user_id and metadata over every step, and a record
\* generateQR returned still has the id, data, image and timestamps that were
\* returned; getQR and the increment it starts change nothing but
\* access_count, and deleteQR changes nothing but is_active.
C33_CreatedFieldsNeverChange ==
    /\ [](\A i \in Ids :
            issued[i] # NoRecord
            => \A rows \in {sqliteRows, pgRows, memoryStore} :
                 rows[i] # NoRecord
                 => PublicView(rows[i])
                      = [issued[i].view EXCEPT !.accessCount = rows[i].access_count])
    /\ [][CreatedFieldsKept]_vars

\* a record that has been retrieved, counted and then retired is still stored
C33_Witness ==
    \E i \in Ids :
        /\ sqliteRows[i] # NoRecord
        /\ sqliteRows[i].access_count > 0
        /\ sqliteRows[i].is_active = False
        /\ now > 0

\* the cache entry of a record lives no longer than the record
TtlWithinExpiry ==
    \A i \in Ids :
        redis[i] # NoRecord => redis[i].expireAt <= redis[i].value.expires_at

\* a getQR answered by the cache answers with a record whose expires_at is not
\* before now
CacheServesUnexpired ==
    \A i \in Ids :
        (getQR(i) /\ getCache(i) # NoRecord) => getCache(i).expires_at >= now

\* C34: no cache entry written by generateQR or getQR outlives the expires_at
\* of its record, and a getQR answered by the cache never returns a record
\* whose expires_at has passed, cleanupExpired having run or not.
C34_CacheTtlWithinExpiry ==
    [](TtlWithinExpiry) /\ [][CacheServesUnexpired]_vars

\* the second half of C34 alone
CacheNeverServesExpired == [][CacheServesUnexpired]_vars

\* the cleanupExpired invocations that have started and not returned
RunsInProgress == {k \in Invocations : cleanups.pc[k] # "idle"}

\* isRunning is set exactly while one run is in progress, and never two
OneRunAtATime ==
    /\ Cardinality(RunsInProgress) <= 1
    /\ service.isRunning <=> RunsInProgress # {}

\* a call made while a run is in progress is skipped or refused and starts
\* nothing
BusyCallsRefused ==
    /\ (cronCallback /\ service.isRunning) =>
          (service'.last = "skipped" /\ cleanups' = cleanups)
    /\ (runOnce /\ service.isRunning) =>
          (service'.last = "Cleanup already running" /\ cleanups' = cleanups)

\* the safety half of C35
CleanupRunsExclusive == [](OneRunAtATime) /\ [][BusyCallsRefused]_vars

\* the flag is cleared again unless a database has stopped calling back
FlagClearedWithoutHang ==
    [](service.isRunning => <>(~service.isRunning \/ hung # {}))

\* C35: at most one run of the cleanup service is in progress at any time; a
\* scheduled callback that fires during a run is skipped and runOnce throws
\* 'Cleanup already running'; isRunning is cleared when the run ends, so that
\* whenever it is set it is eventually clear again and a later run can start.
C35_OneCleanupRun ==
    /\ [](OneRunAtATime)
    /\ [][BusyCallsRefused]_vars
    /\ [](service.isRunning => <>(~service.isRunning))

\* the worker processes that have not ended
LiveWorkers == master.live + master.killed

\* before SIGTERM the master forks exactly one worker for each exit event
ReplacedBeforeSigterm ==
    [][(onExit /\ ~master.sigterm)
          => (master'.live = master.live + 1 /\ master'.exits = master.exits - 1)]_vars

\* C36: once the master has received SIGTERM it starts no new worker and the
\* number of live workers eventually is zero and stays zero; before SIGTERM
\* each worker that exits is replaced by exactly one new worker.
C36_WorkersStopAfterSigterm ==
    /\ [][master.sigterm => master'.live <= master.live]_vars
    /\ [](master.sigterm => <>[](LiveWorkers = 0))
    /\ ReplacedBeforeSigterm

====
